---- MODULE Spec2Model ----
(***************************************************************************)
(* Roche: the per-frame camera / focus-switch state machine of             *)
(* src/src/game.cpp (Game::update, updateIdle, updateTrack, updateMove,    *)
(* scrollFun, isPressedOnce, chooseNextBody, getTexLoadBodies).            *)
(*                                                                         *)
(* Numbers are fixed point:                                                *)
(*   time      in ticks, totalTime ticks = the 1.0 of totalTime            *)
(*   angles    in grid steps, HalfPi steps = pi/2, VertMargin = the 0.001  *)
(*   lengths   in hundredths, MinStep = the 0.01f of updateIdle            *)
(*   fade      in ticks of totalTime (totalTime = opacity 1.0)             *)
(* Positions of bodies come from the orbit model (not part of game.cpp):   *)
(* the directions and distances computed from them are inputs of a frame.  *)
(***************************************************************************)
EXTENDS Integers, Sequences, FiniteSets, TLC

\* ---------------------------------------------------------------- bounds
MaxBodies == 3
MaxDt == 4
MaxMouse == 1
MaxZoomSpeed == 1
MaxZoomOut == 4
MaxEntities == 4
MaxTurn == 10
MaxDay == 1200
MaxPast == 2
MaxFrames == 2
MaxEpoch == 12
MaxCommands == 3

\* ------------------------------------------------------ program constants
totalTime == 3
HalfPi == 3
VertMargin == 1
MinStep == 1
MinTargetDist == 100000
maxViewSpeed == 4
sensitivity == 1
SmoothNum == 1
SmoothDen == 2
FovyMin == 1
FovyMax == 400
ExposureMax == 40
ThetaMargin == 1
ScrollGain == 1
NumWarps == 3

Pi == 2 * HalfPi
TwoPi == 4 * HalfPi

IDLE == "IDLE"
TRACK == "TRACK"
MOVE == "MOVE"

\* the keys polled through isPressedOnce
Keys == {"TAB", "K", "L", "W", "B", "F12"}

\* ---------------------------------------------------------------- helpers
Min(a, b) == IF a < b THEN a ELSE b
Max(a, b) == IF a > b THEN a ELSE b
clamp(x, lo, hi) == Min(Max(x, lo), hi)
Abs(a) == IF a < 0 THEN -a ELSE a

\* C++ float-to-fixed-point: products are truncated toward zero
TruncDiv(a, b) == IF a >= 0 THEN a \div b ELSE -((-a) \div b)
\* nearest grid value of a / b (b > 0)
RoundDiv(a, b) == (2 * a + b) \div (2 * b)

\* the remainder of the C++ integer division, with the sign of a
TruncRem(a, b) == a - b * TruncDiv(a, b)

\* an angle brought into (-Pi, Pi], the range of atan2
WrapAngle(a) == ((a + Pi - 1) % TwoPi) - Pi + 1

\* radius of the body with index id in getBodies() (configuration data)
Radius(id) == 10000 * (4 * id + 1)

\* ---------------------------------------------------------------- state
VARIABLES
    numBodies,              \* entityCollection.getBodies().size()
    focusedBodyId, switchPreviousBodyId, bodyNameId, bodyNameFade,
    switchPhase, switchTime, timeWarpIndex,
    keysHeld,               \* keysHeld[key] of isPressedOnce
    viewPolar, panPolar, viewSpeed,
    switchNewViewPolar, switchPreviousViewDir, viewDir,
    dragging, preMousePosX, preMousePosY,
    wireframe, bloom, viewFovy, exposure,
    parentOf,               \* getParent() of every entity, NoEntity for a root
    hasModel,               \* getParam().isBody() of every entity
    texFocus,               \* the entity last given to getTexLoadBodies
    texLoadBodies,          \* the list getTexLoadBodies returned for it
    \* history of the last step, for stating the properties
    keyDown,                \* glfwGetKey of every key as sampled in the last frame
    pressedOnce,            \* the keys isPressedOnce returned true for in the last frame
    shiftDown,              \* glfwGetKey(LEFT_SHIFT) as read by the last switch
    framePhase,             \* the phase update() dispatched on in the last frame
    addedDt,                \* what the last frame added to switchTime
    sinceSwitch,            \* sum of dt of the frames after the trigger frame,
                            \* counted up to SinceCap
    frameDt,                \* the dt of the last frame
    rayIn,                  \* b < 0 and closestDist of the ray test of the last frame
    scrolled,               \* the scroll event handled by the last step, if it was one
    \* the clock and the entities
    epoch,                  \* Game::epoch, in ticks
    hasOrbit,               \* getParam().hasOrbit() of every entity
    hasClouds,              \* getParam().hasClouds() of every entity
    cloudPeriod,            \* getParam().getClouds().getPeriod() of every entity
    entityState,            \* the EntityState given to setState for every entity
    viewPos,                \* Game::viewPos
    sourcePos,              \* sourcePos of the last frame of updateMove
    epochInSeconds,         \* the argument of the last call of getFormattedTime
    formattedTime,          \* what it returned
    \* the profiler
    fullTimes, maxTimes, numFrames,
    feeds,                  \* the lists given to updateProfiling so far
    \* the fence and the GPU
    sync,                   \* Fence::sync, 0 for no sync object
    fencePoint,             \* the GPU commands issued before the last lock()
    issued,                 \* the GPU commands issued so far
    completed,              \* the GPU commands completed so far, in order
    waited                  \* the last call of wait(): how it ended

gameVars == <<numBodies, focusedBodyId, switchPreviousBodyId, bodyNameId, bodyNameFade,
          switchPhase, switchTime, timeWarpIndex, keysHeld, viewPolar, panPolar,
          viewSpeed, switchNewViewPolar, switchPreviousViewDir, viewDir,
          dragging, preMousePosX, preMousePosY, wireframe, bloom, viewFovy,
          exposure, parentOf, hasModel, texFocus, texLoadBodies,
          keyDown, pressedOnce, shiftDown, framePhase, addedDt, sinceSwitch,
          frameDt, rayIn, scrolled, epoch, hasOrbit, hasClouds, cloudPeriod, entityState,
          viewPos, sourcePos, epochInSeconds, formattedTime,
          fullTimes, maxTimes, numFrames, feeds>>

fenceVars == <<sync, fencePoint, issued, completed, waited>>

vars == <<gameVars, fenceVars>>

\* the state of the calendar, of the profiler, and of the clock and the entities
calVars == <<epochInSeconds, formattedTime>>
profVars == <<fullTimes, maxTimes, numFrames, feeds>>
entityVars == <<hasOrbit, hasClouds, cloudPeriod>>
worldVars == <<epoch, entityState, viewPos, sourcePos>>

\* the sum of frame times is followed this far
SinceCap == 2 * totalTime + 2 * MaxDt

\* no ray test in the frame, or b >= 0 in it (closestDist is then not computed)
NoRay == [bNeg |-> FALSE, closestDist |-> 0]

\* the last step was not a call of scrollFun
NoScroll == [called |-> FALSE, offset |-> 0, alt |-> FALSE, ctrl |-> FALSE]

\* nothing formatted yet
NoTime == [monthName |-> "", month |-> 0, day |-> 0, year |-> 0,
           hours |-> "", minutes |-> "", seconds |-> ""]

\* a position (x, y) in the plane of the orbits
Origin == <<0, 0>>

\* ------------------------------------------------------------ pure parts

\* Game::isPressedOnce: the value returned for a key whose glfwGetKey is `down`
isPressedOnce(held, down, key) == (key \in down) /\ ~held[key]

\* Game::isPressedOnce: keysHeld[key] after the call
heldAfter(held, down, key) == key \in down

\* the keys update() passes to isPressedOnce in a frame dispatched on `phase`:
\* W and B before the phase method, K, L and TAB inside updateIdle, F12 after
PolledKeys(phase) == {"W", "B", "F12"} \cup (IF phase = IDLE THEN {"K", "L", "TAB"} ELSE {})

\* the next index without the wrap
chooseNextBodyNoWrap(focused, direction, size) == focused + (IF direction THEN 1 ELSE -1)

\* Game::chooseNextBody
chooseNextBody(focused, direction, size) ==
    LET id == focused + (IF direction THEN 1 ELSE -1)
    IN  IF id < 0 THEN id + size
        ELSE IF id >= size THEN id - size
        ELSE id

\* the clamp of viewSpeed.x / viewSpeed.y while dragging
clampSpeedNone(v) == v

\* the clamp of viewSpeed.x and viewSpeed.y to [-maxViewSpeed, maxViewSpeed]
clampSpeed(v) ==
    LET a == IF v > maxViewSpeed THEN maxViewSpeed ELSE v
    IN  IF a < -maxViewSpeed THEN -maxViewSpeed ELSE a

\* viewSpeed *= viewSmoothness
smooth(v) == TruncDiv(v * SmoothNum, SmoothDen)

\* move*sensitivity*viewFovy of the right-button pan (viewFovy in units of FovyMax)
panStep(m, fovy) == TruncDiv(m * sensitivity * fovy, FovyMax)

maxVerticalAngle == HalfPi - VertMargin

\* float ease(float t): 6t^5 - 15t^4 + 10t^3 at t ticks, as a fraction of EaseDen
EaseDen == totalTime * totalTime * totalTime * totalTime * totalTime
ease(t) == 6 * t * t * t * t * t - 15 * t * t * t * t * totalTime
           + 10 * t * t * t * totalTime * totalTime

\* (1-f)*a + f*b with f = num / EaseDen
Lerp(a, b, num) == RoundDiv((EaseDen - num) * a + num * b, EaseDen)

\* min(1.f, switchTime/totalTime), in ticks
phaseT(st) == Min(totalTime, st)

\* switchTime = dt
advanceReset(st, dt) == dt

\* switchTime += dt
advance(st, dt) == st + dt

\* switchTime >= totalTime
timerExpiredEarly(st) == st >= totalTime

\* a phase that lasts two durations
timerExpiredLate(st) == st > 2 * totalTime

\* switchTime > totalTime, after switchTime += dt
timerExpired(st) == st > totalTime

\* the timer keeping what the last frame added beyond the duration
resetTimerCarry(st) == st - totalTime

\* switchTime = 0.f, of a timer that has reached st
resetTimer(st) == 0

\* clamp(1.f-t*2.f, 0.f, 1.f) of updateTrack
fadeOut(t) == clamp(totalTime - 2 * t, 0, totalTime)

\* the fade of updateTrack used for updateMove
fadeInAsOut(t) == clamp(totalTime - 2 * t, 0, totalTime)

\* clamp((t-0.5f)*2.f, 0.f, 1.f) of updateMove
fadeIn(t) == clamp(2 * t - totalTime, 0, totalTime)

\* std::max(4*radius, 1000.f) of updateMove
targetDist(id) == Max(4 * Radius(id), MinTargetDist)

\* the aim direction (theta, phi) of -polarToCartesian(p), p = (azimuth, elevation)
aimOf(px, py) == [theta |-> WrapAngle(px + Pi), phi |-> -py]

\* ------------------------------------------------------------ operations
\* A frame's inputs, `in`:
\*   dt                        the frame time
\*   down, shift               the keys glfwGetKey reports down, and LEFT_SHIFT
\*   posX, posY                glfwGetCursorPos
\*   mouseButton1/2            glfwGetMouseButton
\*   bNeg, closestDist         b < 0 and length(closestPoint) of the ray test
\*   newPolar                  the polar coordinates of newRelPos
\*   targetDir, direction      the angles of targetDir (TRACK) and direction (MOVE)

\* the elevation clamp of updateIdle: <<viewPolar.y, viewSpeed.y>> after it
clampElevation(y, vy) ==
    IF y > maxVerticalAngle THEN <<maxVerticalAngle, 0>>
    ELSE IF y < -maxVerticalAngle THEN <<-maxVerticalAngle, 0>>
    ELSE <<y, vy>>

\* the pan left as it is
clampPanNone(y, py) == py

\* the pan clamp of updateIdle: panPolar.y after it
clampPan(y, py) ==
    LET a == IF y + py > maxVerticalAngle THEN maxVerticalAngle - y ELSE py
    IN  IF y + a < -maxVerticalAngle THEN -maxVerticalAngle - y ELSE a

\* the distance left as it is
clampDistNone(z, radius) == z

\* if (viewPolar.z < radius) viewPolar.z = radius
clampDist(z, radius) == IF z < radius THEN radius ELSE z

\* the ray test without the test b < 0
rayTestBehind(vp, radius, in) ==
    IF in.closestDist * 10 < radius * 11 THEN in.newPolar ELSE vp

\* the ray test of the switch: the interpolation target of TRACK
rayTest(vp, radius, in) ==
    IF in.bNeg /\ in.closestDist * 10 < radius * 11 THEN in.newPolar ELSE vp

\* the drag of updateIdle: <<dragging, viewSpeed, panPolar>> after it
dragView(in) ==
    LET moveX == -in.posX + preMousePosX
        moveY == in.posY - preMousePosY
        anyButton == in.mouseButton1 \/ in.mouseButton2
        drag == IF anyButton /\ ~dragging THEN TRUE
                ELSE IF dragging /\ ~anyButton THEN FALSE
                ELSE dragging
    IN  <<drag,
          IF drag /\ in.mouseButton1
          THEN [viewSpeed EXCEPT !.x = clampSpeed(@ + moveX * sensitivity),
                                 !.y = clampSpeed(@ + moveY * sensitivity)]
          ELSE viewSpeed,
          IF drag /\ ~in.mouseButton1 /\ in.mouseButton2
          THEN [x |-> panPolar.x + panStep(moveX, viewFovy),
                y |-> panPolar.y + panStep(moveY, viewFovy)]
          ELSE panPolar>>

\* the motion of updateIdle for a speed vs1 and a pan pan1 after the drag:
\* <<viewPolar, viewSpeed, panPolar>> after the clamps
moveView(vs1, pan1, radius) ==
    LET ce == clampElevation(viewPolar.y + vs1.y, smooth(vs1.y))
        z1 == viewPolar.z + vs1.z * Max(MinStep, viewPolar.z - radius)
    IN  <<[x |-> viewPolar.x + vs1.x, y |-> ce[1], z |-> clampDist(z1, radius)],
          [x |-> smooth(vs1.x), y |-> ce[2], z |-> smooth(vs1.z)],
          [pan1 EXCEPT !.y = clampPan(ce[1], pan1.y)]>>

\* K and L without the tests of the index
timeWarpUnbounded(in) ==
    timeWarpIndex - (IF isPressedOnce(keysHeld, in.down, "K") THEN 1 ELSE 0)
                  + (IF isPressedOnce(keysHeld, in.down, "L") THEN 1 ELSE 0)

\* the time warp keys of updateIdle: timeWarpIndex after K and L
timeWarp(in) ==
    LET warpK == IF isPressedOnce(keysHeld, in.down, "K") /\ timeWarpIndex > 0
                 THEN timeWarpIndex - 1 ELSE timeWarpIndex
    IN  IF isPressedOnce(keysHeld, in.down, "L") /\ warpK < NumWarps - 1
        THEN warpK + 1 ELSE warpK

\* Game::updateIdle
updateIdle(in) ==
    \E radius \in {Radius(focusedBodyId)}, d \in {dragView(in)} :
    \E m \in {moveView(d[2], d[3], radius)} :
    \E dir \in {aimOf(m[1].x + m[3].x, m[1].y + m[3].y)} :
        /\ dragging' = d[1]
        /\ viewPolar' = m[1]
        /\ viewSpeed' = m[2]
        /\ panPolar' = m[3]
        /\ viewDir' = dir
        /\ bodyNameId' = focusedBodyId
        /\ bodyNameFade' = totalTime
        /\ switchTime' = switchTime
        /\ IF isPressedOnce(keysHeld, in.down, "TAB")
           THEN /\ switchPhase' = TRACK
                /\ switchPreviousBodyId' = focusedBodyId
                /\ focusedBodyId' = chooseNextBody(focusedBodyId, ~in.shift, numBodies)
                /\ timeWarpIndex' = 0
                /\ switchPreviousViewDir' = dir
                /\ switchNewViewPolar' = rayTest(m[1], radius, in)
           ELSE /\ timeWarpIndex' = timeWarp(in)
                /\ UNCHANGED <<switchPhase, switchPreviousBodyId, focusedBodyId,
                               switchPreviousViewDir, switchNewViewPolar>>

\* posDeltaTheta of updateTrack, wrapped once
wrapDelta(d) == IF d < -Pi THEN d + TwoPi ELSE IF d > Pi THEN d - TwoPi ELSE d

\* deltaTheta of updateTrack, wrapped once with its 0.001 margin
wrapAim(d) ==
    IF d < -Pi + ThetaMargin THEN d + TwoPi
    ELSE IF d > Pi - ThetaMargin THEN d - TwoPi
    ELSE d

\* interpPolar of updateTrack at eased parameter f = num / EaseDen
interpPolar(vp, target, num) ==
    [x |-> Lerp(vp.x, vp.x + wrapDelta(target.x - vp.x), num),
     y |-> Lerp(vp.y, target.y, num),
     z |-> Lerp(vp.z, target.z, num)]

\* Game::updateTrack
updateTrack(in) ==
    \E t \in {phaseT(switchTime)}, source \in {switchPreviousViewDir} :
    \E f \in {ease(t)}, st \in {advance(switchTime, in.dt)} :
    LET ip == interpPolar(viewPolar, switchNewViewPolar, f)
        deltaTheta == wrapAim(in.targetDir.theta - source.theta)
        phi == Lerp(source.phi, in.targetDir.phi, f)
        theta == Lerp(source.theta, source.theta + deltaTheta, f)
    IN  /\ bodyNameId' = switchPreviousBodyId
        /\ bodyNameFade' = fadeOut(t)
        /\ viewDir' = [theta |-> WrapAngle(theta), phi |-> phi]
        /\ IF timerExpired(st)
           THEN /\ switchPhase' = MOVE
                /\ switchTime' = resetTimer(st)
                /\ viewPolar' = ip
           ELSE /\ switchTime' = st
                /\ UNCHANGED <<switchPhase, viewPolar>>
        /\ UNCHANGED <<dragging, viewSpeed, panPolar, timeWarpIndex,
                       switchPreviousBodyId, focusedBodyId,
                       switchPreviousViewDir, switchNewViewPolar>>

\* Game::updateMove
updateMove(in) ==
    LET t == phaseT(switchTime)
        st == advance(switchTime, in.dt)
    IN  /\ bodyNameId' = focusedBodyId
        /\ bodyNameFade' = fadeIn(t)
        /\ viewDir' = in.direction
        /\ IF timerExpired(st)
           THEN /\ switchPhase' = IDLE
                /\ switchTime' = resetTimer(st)
                /\ viewPolar' = [x |-> WrapAngle(in.direction.theta + Pi),
                                 y |-> -in.direction.phi,
                                 z |-> targetDist(focusedBodyId)]
                /\ panPolar' = [x |-> 0, y |-> 0]
                /\ viewSpeed' = [x |-> 0, y |-> 0, z |-> 0]
           ELSE /\ switchTime' = st
                /\ UNCHANGED <<switchPhase, viewPolar, panPolar, viewSpeed>>
        /\ UNCHANGED <<dragging, timeWarpIndex, switchPreviousBodyId, focusedBodyId,
                       switchPreviousViewDir, switchNewViewPolar>>

\* Game::update
Update(in) ==
    /\ wireframe' = (IF isPressedOnce(keysHeld, in.down, "W") THEN ~wireframe ELSE wireframe)
    /\ bloom' = (IF isPressedOnce(keysHeld, in.down, "B") THEN ~bloom ELSE bloom)
    /\ keysHeld' = [k \in Keys |-> IF k \in PolledKeys(switchPhase)
                                   THEN heldAfter(keysHeld, in.down, k)
                                   ELSE keysHeld[k]]
    /\ IF switchPhase = IDLE THEN updateIdle(in)
       ELSE IF switchPhase = TRACK THEN updateTrack(in)
       ELSE updateMove(in)
    /\ preMousePosX' = in.posX
    /\ preMousePosY' = in.posY
    /\ UNCHANGED <<numBodies, viewFovy, exposure>>
    /\ UNCHANGED <<parentOf, hasModel, texFocus, texLoadBodies>>
    \* history
    /\ keyDown' = [k \in Keys |-> k \in in.down]
    /\ pressedOnce' = {k \in PolledKeys(switchPhase) : isPressedOnce(keysHeld, in.down, k)}
    /\ shiftDown' = (IF switchPhase = IDLE /\ isPressedOnce(keysHeld, in.down, "TAB")
                      THEN in.shift ELSE shiftDown)
    /\ framePhase' = switchPhase
    /\ addedDt' = (IF switchPhase = IDLE THEN 0 ELSE in.dt)
    /\ sinceSwitch' = (IF switchPhase = IDLE \/ switchPhase' = IDLE THEN 0
                       ELSE Min(sinceSwitch + in.dt, SinceCap))
    /\ frameDt' = in.dt
    /\ rayIn' = (IF switchPhase = IDLE /\ isPressedOnce(keysHeld, in.down, "TAB")
                 THEN [bNeg |-> in.bNeg, closestDist |-> in.closestDist]
                 ELSE NoRay)
    /\ scrolled' = NoScroll
    /\ UNCHANGED fenceVars

\* viewFovy*pow(0.5f, offset*sensitivity*100): one halving per scroll step
fovyZoom(fovy, offset) ==
    IF offset >= 0 THEN fovy \div (2 ^ offset) ELSE fovy * (2 ^ (-offset))

\* scrollFun without the test of switchPhase
scrollFunAnyPhase(offset, alt, ctrl) ==
    IF alt
    THEN /\ viewFovy' = clamp(fovyZoom(viewFovy, offset), FovyMin, FovyMax)
         /\ UNCHANGED <<exposure, viewSpeed>>
    ELSE IF ctrl
    THEN /\ exposure' = clamp(exposure + offset, -ExposureMax, ExposureMax)
         /\ UNCHANGED <<viewFovy, viewSpeed>>
    ELSE /\ viewSpeed' = [viewSpeed EXCEPT !.z = @ - ScrollGain * offset]
         /\ UNCHANGED <<viewFovy, exposure>>

\* scrollFun with LEFT_CONTROL tested before LEFT_ALT
scrollFunCtrlFirst(offset, alt, ctrl) ==
    IF switchPhase = IDLE
    THEN IF ctrl
         THEN /\ exposure' = clamp(exposure + offset, -ExposureMax, ExposureMax)
              /\ UNCHANGED <<viewFovy, viewSpeed>>
         ELSE IF alt
         THEN /\ viewFovy' = clamp(fovyZoom(viewFovy, offset), FovyMin, FovyMax)
              /\ UNCHANGED <<exposure, viewSpeed>>
         ELSE /\ viewSpeed' = [viewSpeed EXCEPT !.z = @ - ScrollGain * offset]
              /\ UNCHANGED <<viewFovy, exposure>>
    ELSE UNCHANGED <<viewFovy, exposure, viewSpeed>>

\* Game::scrollFun
scrollFun(offset, alt, ctrl) ==
    IF switchPhase = IDLE
    THEN IF alt
         THEN /\ viewFovy' = clamp(fovyZoom(viewFovy, offset), FovyMin, FovyMax)
              /\ UNCHANGED <<exposure, viewSpeed>>
         ELSE IF ctrl
         THEN /\ exposure' = clamp(exposure + offset, -ExposureMax, ExposureMax)
              /\ UNCHANGED <<viewFovy, viewSpeed>>
         ELSE /\ viewSpeed' = [viewSpeed EXCEPT !.z = @ - ScrollGain * offset]
              /\ UNCHANGED <<viewFovy, exposure>>
    ELSE UNCHANGED <<viewFovy, exposure, viewSpeed>>

\* scrollFun and what it leaves alone
scrollCall(offset, alt, ctrl) ==
    /\ scrollFun(offset, alt, ctrl)
    /\ Abs(viewSpeed'.z) <= MaxZoomSpeed
    /\ UNCHANGED <<numBodies, focusedBodyId, switchPreviousBodyId, bodyNameId,
                   bodyNameFade, switchPhase, switchTime, timeWarpIndex, keysHeld,
                   viewPolar, panPolar, switchNewViewPolar, switchPreviousViewDir,
                   viewDir, dragging, preMousePosX, preMousePosY, wireframe, bloom,
                   parentOf, hasModel, texFocus, texLoadBodies,
                   keyDown, pressedOnce, shiftDown, framePhase, addedDt, sinceSwitch,
                   frameDt, rayIn, calVars, profVars, entityVars, worldVars, fenceVars>>

\* the scroll callback, run by glfwPollEvents between two frames
Scroll(offset, alt, ctrl) ==
    /\ scrollCall(offset, alt, ctrl)
    /\ UNCHANGED scrolled

\* the scroll callback, its arguments and modifiers kept for the step after
ScrollEvent(offset, alt, ctrl) ==
    /\ scrollCall(offset, alt, ctrl)
    /\ scrolled' = [called |-> TRUE, offset |-> offset, alt |-> alt, ctrl |-> ctrl]

\* ------------------------------------------------- texture-load bodies
\* entity handles, in load order; NoEntity is the handle that does not exist
Entities == 0..(MaxEntities - 1)
NoEntity == -1

\* EntityHandle::getAllParents: the chain from the parent up to the root
RECURSIVE getAllParents(_)
getAllParents(h) ==
    IF parentOf[h] = NoEntity THEN <<>>
    ELSE <<parentOf[h]>> \o getAllParents(parentOf[h])

\* the entities whose parent is h, in load order, from entity `from` on
RECURSIVE childrenFrom(_, _)
childrenFrom(h, from) ==
    IF from \notin Entities THEN <<>>
    ELSE (IF parentOf[from] = h THEN <<from>> ELSE <<>>) \o childrenFrom(h, from + 1)

RECURSIVE descendantsOf(_, _)
RECURSIVE getAllChildren(_)

\* the descendants of the entities c[i], c[i+1], ... of the list c
descendantsOf(c, i) ==
    IF i > Len(c) THEN <<>> ELSE getAllChildren(c[i]) \o descendantsOf(c, i + 1)

\* EntityHandle::getAllChildren: every descendant, the children first
getAllChildren(h) ==
    childrenFrom(h, 0) \o descendantsOf(childrenFrom(h, 0), 1)

\* Game::getTexLoadBodies
getTexLoadBodies(focusedEntity) ==
    LET v == <<focusedEntity>> \o getAllParents(focusedEntity)
                \o getAllChildren(parentOf[focusedEntity])
        isBody(h) == hasModel[h]
    IN  SelectSeq(v, isBody)

\* Game::update: getTexLoadBodies(getFocusedBody()), for a focused body that
\* has a parent
TexLoad(h) ==
    /\ hasModel[h] /\ parentOf[h] # NoEntity
    /\ texFocus' = h
    /\ texLoadBodies' = getTexLoadBodies(h)
    /\ UNCHANGED <<numBodies, focusedBodyId, switchPreviousBodyId, bodyNameId,
                   bodyNameFade, switchPhase, switchTime, timeWarpIndex, keysHeld,
                   viewPolar, panPolar, viewSpeed, switchNewViewPolar,
                   switchPreviousViewDir, viewDir, dragging, preMousePosX,
                   preMousePosY, wireframe, bloom, viewFovy, exposure, parentOf,
                   hasModel, keyDown, pressedOnce, shiftDown, framePhase, addedDt,
                   sinceSwitch, frameDt, rayIn, scrolled, calVars, profVars, entityVars,
                   worldVars, fenceVars>>

\* ------------------------------------------------ the clock and the entities
\* timeWarpValues: the rates of the clock, real time first
timeWarpValues == <<1, 2, 4>>

\* the epoch advanced by dt whatever the warp
advanceEpochNoWarp(e, index, dt) == e + dt

\* epoch += timeWarpValues[timeWarpIndex]*dt
advanceEpoch(e, index, dt) == e + timeWarpValues[index + 1] * dt

\* floor(epoch): the whole seconds of an epoch in ticks
floorSeconds(e) == e \div totalTime

VecAdd(a, b) == <<a[1] + b[1], a[2] + b[2]>>
VecSub(a, b) == <<a[1] - b[1], a[2] - b[2]>>

\* the orbit of the entity h: its semi-major axis, and the ticks of a quarter
\* of its period (configuration data)
semiMajorAxis(h) == 500000 * h
quarterPeriod(h) == h

\* Orbit::computePosition for a circular orbit in the plane, at the quarters
\* of its period
computePosition(h, e) ==
    LET q == (e \div quarterPeriod(h)) % 4
        a == semiMajorAxis(h)
    IN  IF q = 0 THEN <<a, 0>> ELSE IF q = 1 THEN <<0, a>>
        ELSE IF q = 2 THEN <<-a, 0>> ELSE <<0, -a>>

\* the rotation period of the entity h (configuration data)
rotationPeriod(h) == 4 + h

\* the first loop of the entity state update from order[i] on
RECURSIVE relativeLoop(_, _, _, _)
relativeLoop(rel, order, i, e) ==
    IF i > Len(order) THEN rel
    ELSE LET h == order[i]
             pos == IF parentOf[h] = NoEntity \/ ~hasOrbit[h] THEN Origin
                    ELSE computePosition(h, e)
         IN  relativeLoop((h :> pos) @@ rel, order, i + 1, e)

\* the while loop over the parents, from `parent` up
RECURSIVE addParents(_, _, _)
addParents(rel, parent, acc) ==
    IF parent = NoEntity THEN acc
    ELSE addParents(rel, parentOf[parent], VecAdd(acc, rel[parent]))

\* the position without the positions of the parents
absPositionAlone(rel, h) == rel[h]

\* absPosition of the entity h
absPosition(rel, h) == addParents(rel, parentOf[h], rel[h])

\* 2 pi fmod(epoch/rotationPeriod, 1), as the ticks into the turn
rotationAngle(h, e) == TruncRem(e, rotationPeriod(h))

\* cloudDisp: fmod(-epoch/period, 1), as the ticks into the period
cloudDisp(h, e) ==
    IF hasClouds[h] THEN 0
    ELSE LET period == cloudPeriod[h]
         IN  IF period # 0 THEN TruncRem(-e, period) ELSE 0

\* the second loop of the entity state update from order[i] on
RECURSIVE stateLoop(_, _, _, _, _)
stateLoop(state, rel, order, i, e) ==
    IF i > Len(order) THEN state
    ELSE LET h == order[i]
         IN  stateLoop((h :> [position |-> absPosition(rel, h),
                              rotationAngle |-> rotationAngle(h, e),
                              cloudDisp |-> cloudDisp(h, e)]) @@ state,
                       rel, order, i + 1, e)

\* the map given to setState, for entityCollection.getAll() in the order `order`
entityStates(e, order) ==
    stateLoop(<<>>, relativeLoop(<<>>, order, 1, e), order, 1, e)

\* ---------------------------------------------------------------- geometry
\* cos and sin of an angle of the grid, in thousandths
CosTable == <<1000, 866, 500, 0, -500, -866, -1000, -866, -500, 0, 500, 866>>
CosT(a) == CosTable[(a % TwoPi) + 1]
SinT(a) == CosT(a - HalfPi)

\* polarToCartesian(vec2(p)) * p.z, in the plane of the orbits
polarXY(p) ==
    LET flat == TruncDiv(CosT(p.y) * p.z, 1000)
    IN  <<TruncDiv(CosT(p.x) * flat, 1000), TruncDiv(SinT(p.x) * flat, 1000)>>

\* atan2(y, x) on the grid: the nearest step of 30 degrees (tan 15 = 4/15,
\* tan 75 = 15/4)
atan2Grid(y, x) ==
    LET ax == Abs(x)
        ay == Abs(y)
        sector == IF 15 * ay < 4 * ax THEN 0
                  ELSE IF ay < ax THEN 1
                  ELSE IF 4 * ay < 15 * ax THEN 2
                  ELSE 3
    IN  IF x = 0 /\ y = 0 THEN 0
        ELSE IF x >= 0 /\ y >= 0 THEN sector
        ELSE IF x < 0 /\ y >= 0 THEN Pi - sector
        ELSE IF x < 0 THEN WrapAngle(sector - Pi)
        ELSE -sector

\* the angles of normalize(v), for a vector of the plane
dirTo(v) == [theta |-> atan2Grid(v[2], v[1]), phi |-> 0]

\* ease2(t, 4), as numerator and denominator
ease2Num(t) == t * t * t * t
ease2Den(t) == ease2Num(t) + ease2Num(totalTime - t)

\* f*b + (1-f)*a for f = num/den, on vectors
mix(a, b, num, den) ==
    <<RoundDiv((den - num) * a[1] + num * b[1], den),
      RoundDiv((den - num) * a[2] + num * b[2], den)>>

\* getBodies()[id]: the id-th entity with a Model, in load order
RECURSIVE bodyFrom(_, _)
bodyFrom(id, h) ==
    IF h \notin Entities THEN NoEntity
    ELSE IF hasModel[h] THEN (IF id = 0 THEN h ELSE bodyFrom(id - 1, h + 1))
    ELSE bodyFrom(id, h + 1)
getBody(id) == bodyFrom(id, 0)

\* sourcePos without the position of the previous body
moveSourceFixed(prevPos, vp) == polarXY(vp)

\* sourcePos of updateMove
moveSource(prevPos, vp) == VecAdd(prevPos, polarXY(vp))

\* ------------------------------------------------------------ calendar
\* the characters '0' + k for k in -9..9: the codes 39 to 57
Chars == <<"'", "(", ")", "*", "+", ",", "-", ".", "/",
           "0", "1", "2", "3", "4", "5", "6", "7", "8", "9">>
CharOf(k) == Chars[k + 10]

\* format: the characters '0' + value/10 and '0' + value%10
format(value) == CharOf(TruncDiv(value, 10)) \o CharOf(TruncRem(value, 10))

\* no year is a leap year
isLeapYearNever(year) == FALSE

\* isLeapYear
isLeapYear(year) ==
    (year % 4 = 0 /\ year % 100 # 0) \/ year % 400 = 0

\* the first loop of getFormattedTime: <<year, i>> when it breaks
RECURSIVE yearLoop(_, _, _)
yearLoop(year, i, days) ==
    LET daysInYear == 365 + (IF isLeapYear(year) THEN 1 ELSE 0)
    IN  IF i + daysInYear <= days THEN yearLoop(year + 1, i + daysInYear, days)
        ELSE <<year, i>>

\* monthLength of getFormattedTime
monthLength(year) ==
    <<31, 28 + (IF isLeapYear(year) THEN 1 ELSE 0), 31, 30, 31, 30, 31, 31, 30, 31, 30, 31>>

monthNames ==
    <<"Jan", "Feb", "Mar", "Apr", "May", "Jun", "Jul", "Aug", "Sep", "Oct", "Nov", "Dec">>

\* the second loop of getFormattedTime: <<month, j>> when it breaks
RECURSIVE monthLoop(_, _, _, _)
monthLoop(month, j, remainingDays, lengths) ==
    IF j + lengths[month + 1] <= remainingDays
    THEN monthLoop(month + 1, j + lengths[month + 1], remainingDays, lengths)
    ELSE <<month, j>>

\* getFormattedTime: the parts of "<Mon>. <day> <year> HH:MM:SS UTC"
getFormattedTime(e) ==
    LET seconds == TruncRem(e, 60)
        minutes == TruncRem(TruncDiv(e, 60), 60)
        hours == TruncRem(TruncDiv(e, 3600), 24)
        days == TruncDiv(e, 86400)
        y == yearLoop(2017, 0, days)
        remainingDays == days - y[2]
        m == monthLoop(0, 0, remainingDays, monthLength(y[1]))
    IN  [monthName |-> monthNames[m[1] + 1], month |-> m[1],
         day |-> remainingDays - m[2] + 1, year |-> y[1],
         hours |-> format(hours), minutes |-> format(minutes),
         seconds |-> format(seconds)]

\* a call of getFormattedTime: on the epoch of the start, and then on an epoch
\* `step` seconds after the last one
FormatTime(step) ==
    /\ \E e \in {IF formattedTime = NoTime THEN epochInSeconds
                  ELSE epochInSeconds + step} :
         /\ epochInSeconds' = e
         /\ formattedTime' = getFormattedTime(e)
    /\ UNCHANGED <<numBodies, focusedBodyId, switchPreviousBodyId, bodyNameId,
                   bodyNameFade, switchPhase, switchTime, timeWarpIndex, keysHeld,
                   viewPolar, panPolar, viewSpeed, switchNewViewPolar,
                   switchPreviousViewDir, viewDir, dragging, preMousePosX,
                   preMousePosY, wireframe, bloom, viewFovy, exposure, parentOf,
                   hasModel, texFocus, texLoadBodies, keyDown, pressedOnce,
                   shiftDown, framePhase, addedDt, sinceSwitch, frameDt, rayIn, scrolled,
                   profVars, entityVars, worldVars, fenceVars>>

\* ------------------------------------------------------------ profiler
\* find_if: the index of the first pair of `times` with the label, 0 for end()
RECURSIVE findLabel(_, _, _)
findLabel(times, label, i) ==
    IF i > Len(times) THEN 0
    ELSE IF times[i][1] = label THEN i
    ELSE findLabel(times, label, i + 1)

\* the full time update for the pair p
addFull(times, p) ==
    LET it == findLabel(times, p[1], 1)
    IN  IF it = 0 THEN Append(times, p)
        ELSE [times EXCEPT ![it] = <<@[1], @[2] + p[2]>>]

\* the max time update keeping the last duration
addMaxLast(times, p) ==
    LET it == findLabel(times, p[1], 1)
    IN  IF it = 0 THEN Append(times, p)
        ELSE [times EXCEPT ![it] = <<@[1], p[2]>>]

\* the max time update for the pair p
addMax(times, p) ==
    LET it == findLabel(times, p[1], 1)
    IN  IF it = 0 THEN Append(times, p)
        ELSE [times EXCEPT ![it] = <<@[1], Max(@[2], p[2])>>]

\* the loop of updateProfiling from the pair a[i] on: <<fullTimes, maxTimes>>
RECURSIVE profileLoop(_, _, _, _)
profileLoop(full, mx, a, i) ==
    IF i > Len(a) THEN <<full, mx>>
    ELSE profileLoop(addFull(full, a[i]), addMax(mx, a[i]), a, i + 1)

\* Game::updateProfiling
updateProfiling(a) ==
    /\ \E r \in {profileLoop(fullTimes, maxTimes, a, 1)} :
         /\ fullTimes' = r[1]
         /\ maxTimes' = r[2]
    /\ numFrames' = numFrames + 1
    /\ feeds' = Append(feeds, a)
    /\ UNCHANGED <<numBodies, focusedBodyId, switchPreviousBodyId, bodyNameId,
                   bodyNameFade, switchPhase, switchTime, timeWarpIndex, keysHeld,
                   viewPolar, panPolar, viewSpeed, switchNewViewPolar,
                   switchPreviousViewDir, viewDir, dragging, preMousePosX,
                   preMousePosY, wireframe, bloom, viewFovy, exposure, parentOf,
                   hasModel, texFocus, texLoadBodies, keyDown, pressedOnce,
                   shiftDown, framePhase, addedDt, sinceSwitch, frameDt, rayIn, scrolled,
                   calVars, entityVars, worldVars, fenceVars>>

\* ------------------------------------------------------ initial state
\* Game::Game and Game::init: the switch machine idle, the camera at four radii
\* of the starting body, nothing held
InitCamera ==
    /\ numBodies \in 1..MaxBodies
    /\ focusedBodyId \in 0..(numBodies - 1)
    /\ switchPreviousBodyId = 0
    /\ bodyNameId = 0
    /\ bodyNameFade = totalTime
    /\ switchPhase = IDLE
    /\ switchTime = 0
    /\ timeWarpIndex = 0
    /\ keysHeld = [k \in Keys |-> FALSE]
    /\ viewPolar = [x |-> 0, y |-> 0, z |-> 4 * Radius(focusedBodyId)]
    /\ panPolar = [x |-> 0, y |-> 0]
    /\ viewSpeed = [x |-> 0, y |-> 0, z |-> 0]
    /\ switchNewViewPolar = [x |-> 0, y |-> 0, z |-> 0]
    /\ switchPreviousViewDir = [theta |-> 0, phi |-> -HalfPi]
    /\ viewDir = [theta |-> 0, phi |-> -HalfPi]
    /\ dragging = FALSE
    /\ preMousePosX = 0
    /\ preMousePosY = 0
    /\ wireframe = FALSE
    /\ bloom = FALSE
    /\ viewFovy = FovyMax
    /\ exposure = 0
    /\ keyDown = [k \in Keys |-> FALSE]
    /\ pressedOnce = {}
    /\ shiftDown = FALSE
    /\ framePhase = "NONE"
    /\ addedDt = 0
    /\ sinceSwitch = 0
    /\ frameDt = 0
    /\ rayIn = NoRay
    /\ scrolled = NoScroll

\* nothing formatted yet
InitCalendar == formattedTime = NoTime

\* the profiler before the first frame
InitProfiling ==
    /\ fullTimes = <<>>
    /\ maxTimes = <<>>
    /\ numFrames = 0
    /\ feeds = <<>>

\* no lock() yet: no command issued before one
NoPoint == -1

\* wait() not called yet
NoWait == [outcome |-> "none", calls |-> 0, ret |-> "NONE", created |-> FALSE,
           locked |-> FALSE, complete |-> FALSE]

\* the fence as constructed, the GPU idle
InitFence ==
    /\ sync = 0
    /\ fencePoint = NoPoint
    /\ issued = 0
    /\ completed = 0
    /\ waited = NoWait

\* no state given to setState yet
InitWorld ==
    /\ epoch = 0
    /\ entityState = [e \in Entities |->
                        [position |-> Origin, rotationAngle |-> 0, cloudDisp |-> 0]]
    /\ viewPos = Origin
    /\ sourcePos = Origin

\* entities without orbit and without clouds
NoOrbits ==
    /\ hasOrbit = [e \in Entities |-> FALSE]
    /\ hasClouds = [e \in Entities |-> FALSE]
    /\ cloudPeriod = [e \in Entities |-> 0]

\* the entities loaded by init, in load order; every body orbits the first
InitGame ==
    /\ InitCamera
    /\ parentOf = [e \in Entities |-> IF e = 0 THEN NoEntity ELSE 0]
    /\ hasModel = [e \in Entities |-> TRUE]
    /\ texFocus = NoEntity
    /\ texLoadBodies = <<>>
    /\ NoOrbits
    /\ epochInSeconds = 0
    /\ InitCalendar /\ InitProfiling /\ InitWorld /\ InitFence

\* ------------------------------------------------------------ inputs
\* What a frame may be given is bounded by a profile P:
\*   P.idleKeys, P.keys   the keys that may be down in IDLE, and during a switch
\*   P.dts    the frame times                 P.xs, P.ys   the cursor positions
\*   P.left, P.right   the states of mouse buttons 1 and 2
\*   P.dirs   the directions toward a body    P.rays   the outcomes b < 0 of the ray test
\*   P.shiftYs, P.shiftZs   where the ray test may shift the camera to
\*   P.shifts the states of LEFT_SHIFT
Dts == 1..MaxDt
MousePos == 0..MaxMouse

\* directions toward a body: level, and straight up
Dirs == [theta : {0}, phi : {0, HalfPi}]
NoDir == [theta |-> 0, phi |-> 0]

\* polar coordinates of newRelPos for a camera at vp: shifted to the elevations
\* P.shiftYs, at P.shiftZs times the distance
NewPolars(P, vp) == [x : {vp.x}, y : P.shiftYs, z : {k * vp.z : k \in P.shiftZs}]

\* length(closestPoint) for a body of radius r: inside and outside 1.1 r
ClosestDists(r) == {r, 2 * r}

In(dt, down, shift, posX, posY, b1, b2, bNeg, cd, np, td, dir) ==
    [dt |-> dt, down |-> down, shift |-> shift, posX |-> posX, posY |-> posY,
     mouseButton1 |-> b1, mouseButton2 |-> b2, bNeg |-> bNeg, closestDist |-> cd,
     newPolar |-> np, targetDir |-> td, direction |-> dir]

\* zooming out is followed up to MaxZoomOut above the surface of the focused body
ZoomBounded == viewPolar'.z <= Max(viewPolar.z, Radius(focusedBodyId) + MaxZoomOut)

\* turning around the body is followed up to MaxTurn steps of azimuth
TurnBounded == Abs(viewPolar'.x) <= Max(Abs(viewPolar.x), MaxTurn)

\* a frame dispatched to updateIdle (dt is not read by it; LEFT_SHIFT and the
\* ray test are read only when Tab triggers the switch)
IdleFrame(P) ==
    /\ switchPhase = IDLE
    /\ \E dt \in {1}, down \in SUBSET P.idleKeys,
          posX \in P.xs, posY \in P.ys, b1 \in P.left, b2 \in P.right :
         IF "TAB" \in down /\ ~keysHeld["TAB"]
         THEN \E shift \in P.shifts, bNeg \in P.rays :
                \E cd \in (IF bNeg THEN ClosestDists(Radius(focusedBodyId)) ELSE {0}) :
                \E np \in NewPolars(P, viewPolar) :
                \E in \in {In(dt, down, shift, posX, posY, b1, b2, bNeg, cd, np, NoDir, NoDir)} :
                   Update(in)
         ELSE \E in \in {In(dt, down, FALSE, posX, posY, b1, b2, FALSE, 0, viewPolar, NoDir, NoDir)} :
                   Update(in)
    /\ ZoomBounded
    /\ TurnBounded
    /\ UNCHANGED <<calVars, profVars, entityVars, worldVars>>

\* a frame dispatched to updateTrack
TrackFrame(P) ==
    /\ switchPhase = TRACK
    /\ \E dt \in P.dts, down \in SUBSET P.keys, posX \in P.xs, posY \in P.ys, td \in P.dirs :
         \E in \in {In(dt, down, FALSE, posX, posY, FALSE, FALSE, FALSE, 0, viewPolar, td, NoDir)} :
            Update(in)
    /\ UNCHANGED <<calVars, profVars, entityVars, worldVars>>

\* a frame dispatched to updateMove
MoveFrame(P) ==
    /\ switchPhase = MOVE
    /\ \E dt \in P.dts, down \in SUBSET P.keys, posX \in P.xs, posY \in P.ys, dir \in P.dirs :
         \E in \in {In(dt, down, FALSE, posX, posY, FALSE, FALSE, FALSE, 0, viewPolar, NoDir, dir)} :
            Update(in)
    /\ UNCHANGED <<calVars, profVars, entityVars, worldVars>>

\* a scroll of the wheel, without modifier
ScrollStep ==
    \E offset \in {-1, 1} : Scroll(offset, FALSE, FALSE)

\* ------------------------------- Spec: the focus switch, driven by Tab and dt
SwitchProfile ==
    [idleKeys |-> {"TAB"}, keys |-> {"TAB"}, dts |-> Dts, xs |-> {0},
     ys |-> {0}, left |-> {FALSE}, right |-> {FALSE},
     dirs |-> Dirs, rays |-> BOOLEAN, shiftYs |-> {0, HalfPi}, shiftZs |-> {1, 2},
     shifts |-> BOOLEAN]

Init == InitGame

Next ==
    \/ IdleFrame(SwitchProfile)
    \/ TrackFrame(SwitchProfile)
    \/ MoveFrame(SwitchProfile)

Spec == Init /\ [][Next]_vars

\* the directions toward a body at the level of the camera
Level == {[theta |-> 0, phi |-> 0]}

\* ----------- LiveSpec: the focus switch with the game loop running frame after
\* frame while a switch is under way (main calls update until the window closes)
LiveProfile ==
    [idleKeys |-> {"TAB"}, keys |-> {"TAB"}, dts |-> Dts, xs |-> {0},
     ys |-> {0}, left |-> {FALSE}, right |-> {FALSE},
     dirs |-> Level, rays |-> {FALSE}, shiftYs |-> {0}, shiftZs |-> {1},
     shifts |-> BOOLEAN]

LiveNext ==
    \/ IdleFrame(LiveProfile)
    \/ TrackFrame(LiveProfile)
    \/ MoveFrame(LiveProfile)

LiveSpec ==
    /\ Init
    /\ [][LiveNext]_vars
    /\ WF_vars(TrackFrame(LiveProfile))
    /\ WF_vars(MoveFrame(LiveProfile))

\* ----------------------------- ZoomSpec: the wheel zoom and the focus switch
ZoomProfile ==
    [idleKeys |-> {"TAB"}, keys |-> {"TAB"}, dts |-> {MaxDt}, xs |-> {0},
     ys |-> {0}, left |-> {FALSE}, right |-> {FALSE},
     dirs |-> Level, rays |-> {FALSE}, shiftYs |-> {0}, shiftZs |-> {1},
     shifts |-> BOOLEAN]

ZoomNext ==
    \/ IdleFrame(ZoomProfile)
    \/ TrackFrame(ZoomProfile)
    \/ MoveFrame(ZoomProfile)
    \/ ScrollStep

ZoomSpec == Init /\ [][ZoomNext]_vars

\* ------------------------ DragSpec: the mouse drag, the pan and the focus switch
DragProfile ==
    [idleKeys |-> {"TAB"}, keys |-> {"TAB"}, dts |-> {totalTime}, xs |-> {0},
     ys |-> MousePos, left |-> BOOLEAN, right |-> BOOLEAN,
     dirs |-> Dirs, rays |-> {TRUE}, shiftYs |-> {HalfPi}, shiftZs |-> {1},
     shifts |-> {FALSE}]

DragNext ==
    \/ IdleFrame(DragProfile)
    \/ TrackFrame(DragProfile)
    \/ MoveFrame(DragProfile)

DragInit == InitGame /\ numBodies = 2

DragSpec == DragInit /\ [][DragNext]_vars

\* ------ InputSpec: the inputs of the camera while a switch is under way (Tab,
\* Shift, K, L, the mouse, the wheel), between pans and zooms in IDLE
InputProfile ==
    [idleKeys |-> {"TAB"}, keys |-> {"TAB", "K", "L"}, dts |-> {totalTime}, xs |-> {0},
     ys |-> {0, 1}, left |-> {FALSE}, right |-> BOOLEAN,
     dirs |-> Level, rays |-> {FALSE}, shiftYs |-> {0}, shiftZs |-> {1},
     shifts |-> {TRUE}]

InputNext ==
    \/ IdleFrame(InputProfile)
    \/ TrackFrame(InputProfile)
    \/ MoveFrame(InputProfile)
    \/ ScrollStep

InputInit == InitGame /\ numBodies = 2 /\ focusedBodyId = 0

InputSpec == InputInit /\ [][InputNext]_vars

\* ------------- KeySpec: the keys of isPressedOnce, each down or up in every frame
KeyProfile ==
    [idleKeys |-> Keys, keys |-> Keys, dts |-> {MaxDt}, xs |-> {0},
     ys |-> {0}, left |-> {FALSE}, right |-> {FALSE},
     dirs |-> Level, rays |-> {FALSE}, shiftYs |-> {0}, shiftZs |-> {1},
     shifts |-> {FALSE}]

KeyNext ==
    \/ IdleFrame(KeyProfile)
    \/ TrackFrame(KeyProfile)
    \/ MoveFrame(KeyProfile)

KeyInit == InitGame /\ numBodies = 1

KeySpec == KeyInit /\ [][KeyNext]_vars

\* ------- SpeedSpec: the drag with the left button and the wheel, in IDLE
\* (cursor moves large enough for one frame to reach maxViewSpeed)
SpeedMouse == {0, 2 * maxViewSpeed + 2 * MaxMouse}

SpeedProfile ==
    [idleKeys |-> {}, keys |-> {}, dts |-> {MaxDt}, xs |-> SpeedMouse,
     ys |-> SpeedMouse, left |-> BOOLEAN, right |-> {FALSE},
     dirs |-> Level, rays |-> {FALSE}, shiftYs |-> {0}, shiftZs |-> {1},
     shifts |-> {FALSE}]

SpeedNext ==
    \/ IdleFrame(SpeedProfile)
    \/ ScrollStep

SpeedInit == InitGame /\ numBodies = 1

SpeedSpec == SpeedInit /\ [][SpeedNext]_vars

\* ------ CalSpec: getFormattedTime on the days from MaxPast days before the
\* reference instant (a clock set before 2017) to MaxDay days after it
CalSeconds == {0, 3661, 86399}
CalEpochs == {d * 86400 + sec : d \in (-MaxPast)..MaxDay, sec \in CalSeconds}
CalSteps == {1, 86400}

CalInit ==
    /\ InitCamera /\ numBodies = 1
    /\ parentOf = [e \in Entities |-> IF e = 0 THEN NoEntity ELSE 0]
    /\ hasModel = [e \in Entities |-> TRUE]
    /\ texFocus = NoEntity
    /\ texLoadBodies = <<>>
    /\ NoOrbits
    /\ epochInSeconds \in CalEpochs
    /\ InitCalendar /\ InitProfiling /\ InitWorld /\ InitFence

\* the steps are followed from the epochs of CalEpochs
CalNext ==
    \E step \in CalSteps :
        /\ epochInSeconds \in CalEpochs
        /\ epochInSeconds + step <= MaxDay * 86400 + 86400
        /\ FormatTime(step)

CalSpec == CalInit /\ [][CalNext]_vars

\* ------ ProfSpec: updateProfiling on the lists of the renderer, MaxFrames frames
\* (a list has up to two pairs; a label may come twice in it, or not at all)
StagePairs == {"frame", "scene"} \X {1, 3}
ProfilerTimes == {<<>>} \cup {<<p>> : p \in StagePairs}
                    \cup {<<p, q>> : p \in StagePairs, q \in StagePairs}

ProfNext == \E a \in ProfilerTimes : Len(feeds) < MaxFrames /\ updateProfiling(a)

ProfInit == InitGame /\ numBodies = 1

ProfSpec == ProfInit /\ [][ProfNext]_vars

\* ------ TexSpec: getTexLoadBodies on every hierarchy of MaxEntities entities
\* (handles numbered so that a parent comes before its children)
Hierarchies ==
    {p \in [Entities -> Entities \cup {NoEntity}] : \A e \in Entities : p[e] < e}

TexInit ==
    /\ InitCamera /\ numBodies = 1
    /\ parentOf \in Hierarchies
    /\ hasModel \in [Entities -> BOOLEAN]
    /\ texFocus = NoEntity
    /\ texLoadBodies = <<>>
    /\ NoOrbits
    /\ epochInSeconds = 0
    /\ InitCalendar /\ InitProfiling /\ InitWorld /\ InitFence

TexNext == \E h \in Entities : TexLoad(h)

TexSpec == TexInit /\ [][TexNext]_vars

\* ------ ScrollSpec: the wheel turned in any phase, with and without LEFT_ALT
\* and LEFT_CONTROL (the field of view is moved by 3 notches at a time and the
\* exposure by 50, to bring them to their limits)
ScrollOffsets == {-1, 0, 1}
FovyOffsets == {-3, 0, 3}
ExposureOffsets == {-50, 0, 50}

ScrollProfile ==
    [idleKeys |-> {"TAB"}, keys |-> {}, dts |-> {MaxDt}, xs |-> {0},
     ys |-> {0}, left |-> {FALSE}, right |-> {FALSE},
     dirs |-> Level, rays |-> {FALSE}, shiftYs |-> {0}, shiftZs |-> {1},
     shifts |-> {FALSE}]

ScrollAny ==
    \E alt \in BOOLEAN, ctrl \in BOOLEAN :
    \E offset \in (IF alt THEN FovyOffsets
                   ELSE IF ctrl THEN ExposureOffsets ELSE ScrollOffsets) :
       ScrollEvent(offset, alt, ctrl)

ScrollNext ==
    \/ IdleFrame(ScrollProfile)
    \/ TrackFrame(ScrollProfile)
    \/ MoveFrame(ScrollProfile)
    \/ ScrollAny

ScrollInit == InitGame /\ numBodies = 1

ScrollSpec == ScrollInit /\ [][ScrollNext]_vars

\* ------ WarpSpec: the keys of the time warp and of the focus switch, down in
\* any phase
WarpProfile ==
    [idleKeys |-> {"TAB", "K", "L"}, keys |-> {"TAB", "K", "L"}, dts |-> {MaxDt},
     xs |-> {0}, ys |-> {0}, left |-> {FALSE}, right |-> {FALSE},
     dirs |-> Level, rays |-> {FALSE}, shiftYs |-> {0}, shiftZs |-> {1},
     shifts |-> {FALSE}]

WarpNext ==
    \/ IdleFrame(WarpProfile)
    \/ TrackFrame(WarpProfile)
    \/ MoveFrame(WarpProfile)

WarpSpec == Init /\ [][WarpNext]_vars

\* ------ the whole frame: the clock and the entity states, then the camera,
\* then the time given to the renderer
\* the orders in which entityCollection.getAll() may be gone through
LoadOrder == [i \in 1..MaxEntities |-> i - 1]
Orders == {LoadOrder, [i \in 1..MaxEntities |-> MaxEntities - i]}

\* the position of the id-th body in the states given to setState
bodyPosition(state, id) == state[getBody(id)].position

\* direction*targetDist for a direction of the plane
along(dir, dist) ==
    <<TruncDiv(CosT(dir.theta) * dist, 1000), TruncDiv(SinT(dir.theta) * dist, 1000)>>

\* the camera part of a frame in IDLE, with viewPos
worldIdle(P, dt, state) ==
    /\ \E down \in SUBSET P.idleKeys :
         IF "TAB" \in down /\ ~keysHeld["TAB"]
         THEN \E shift \in P.shifts, bNeg \in P.rays :
                \E cd \in (IF bNeg THEN ClosestDists(Radius(focusedBodyId)) ELSE {0}) :
                \E np \in NewPolars(P, viewPolar) :
                \E in \in {In(dt, down, shift, 0, 0, FALSE, FALSE, bNeg, cd, np, NoDir, NoDir)} :
                   Update(in)
         ELSE \E in \in {In(dt, down, FALSE, 0, 0, FALSE, FALSE, FALSE, 0, viewPolar, NoDir, NoDir)} :
                   Update(in)
    /\ viewPos' = VecAdd(polarXY(viewPolar'), bodyPosition(state, focusedBodyId))
    /\ sourcePos' = sourcePos

\* the camera part of a frame in TRACK, with viewPos and targetDir
worldTrack(P, dt, state) ==
    \E ip \in {interpPolar(viewPolar, switchNewViewPolar, ease(phaseT(switchTime)))} :
    \E vp \in {VecAdd(bodyPosition(state, switchPreviousBodyId), polarXY(ip))} :
    \E td \in {dirTo(VecSub(bodyPosition(state, focusedBodyId), vp))} :
    \E down \in SUBSET P.keys :
       /\ Update(In(dt, down, FALSE, 0, 0, FALSE, FALSE, FALSE, 0, viewPolar, td, NoDir))
       /\ viewPos' = vp
       /\ sourcePos' = sourcePos

\* the camera part of a frame in MOVE, with sourcePos, direction and viewPos
worldMove(P, dt, state) ==
    \E src \in {moveSource(bodyPosition(state, switchPreviousBodyId), viewPolar)} :
    \E dir \in {dirTo(VecSub(bodyPosition(state, focusedBodyId), src))} :
    \E targetPos \in {VecSub(bodyPosition(state, focusedBodyId),
                             along(dir, targetDist(focusedBodyId)))} :
    \E t \in {phaseT(switchTime)}, down \in SUBSET P.keys :
       /\ Update(In(dt, down, FALSE, 0, 0, FALSE, FALSE, FALSE, 0, viewPolar, NoDir, dir))
       /\ viewPos' = mix(src, targetPos, ease2Num(t), ease2Den(t))
       /\ sourcePos' = src

\* Game::update with its clock, its entity states and its formatted time
WorldFrame(P) ==
    \E dt \in P.dts, order \in Orders :
    \E e \in {advanceEpoch(epoch, timeWarpIndex, dt)} :
    \E state \in {entityStates(e, order)} :
       /\ e <= MaxEpoch
       /\ epoch' = e
       /\ entityState' = state
       /\ IF switchPhase = IDLE THEN worldIdle(P, dt, state)
          ELSE IF switchPhase = TRACK THEN worldTrack(P, dt, state)
          ELSE worldMove(P, dt, state)
       /\ epochInSeconds' = floorSeconds(e)
       /\ formattedTime' = getFormattedTime(floorSeconds(e))
       /\ UNCHANGED <<profVars, entityVars>>

\* ------ EntitySpec: the entity states on every hierarchy, with and without
\* orbits, the camera left alone
EntityProfile ==
    [idleKeys |-> {}, keys |-> {}, dts |-> {1}, xs |-> {0},
     ys |-> {0}, left |-> {FALSE}, right |-> {FALSE},
     dirs |-> Level, rays |-> {FALSE}, shiftYs |-> {0}, shiftZs |-> {1},
     shifts |-> {FALSE}]

EntityInit ==
    /\ InitCamera
    /\ numBodies = 1
    /\ parentOf \in Hierarchies
    /\ hasModel = [e \in Entities |-> e < numBodies]
    /\ hasOrbit \in [Entities -> BOOLEAN]
    /\ hasClouds = [e \in Entities |-> FALSE]
    /\ cloudPeriod = [e \in Entities |-> 0]
    /\ texFocus = NoEntity
    /\ texLoadBodies = <<>>
    /\ epochInSeconds = 0
    /\ InitCalendar /\ InitProfiling /\ InitWorld /\ InitFence

EntityNext == WorldFrame(EntityProfile)

EntitySpec == EntityInit /\ [][EntityNext]_vars

\* ------ CloudSpec: the cloud displacement of entities with and without a
\* cloud layer (an entity without cloud layer has no cloud period)
CloudPeriods == {0, 3}

CloudInit ==
    /\ InitCamera
    /\ numBodies = 1
    /\ parentOf = [e \in Entities |-> IF e = 0 THEN NoEntity ELSE 0]
    /\ hasModel = [e \in Entities |-> e < numBodies]
    /\ hasOrbit = [e \in Entities |-> e > 0]
    /\ hasClouds \in [Entities -> BOOLEAN]
    /\ cloudPeriod \in [Entities -> CloudPeriods]
    /\ \A e \in Entities : ~hasClouds[e] => cloudPeriod[e] = 0
    /\ texFocus = NoEntity
    /\ texLoadBodies = <<>>
    /\ epochInSeconds = 0
    /\ InitCalendar /\ InitProfiling /\ InitWorld /\ InitFence

CloudSpec == CloudInit /\ [][EntityNext]_vars

\* ------ WorldSpec: the camera among moving bodies: a barycenter, a body in
\* orbit around it, and a second body in orbit around the first
WorldProfile ==
    [idleKeys |-> {"TAB", "K", "L"}, keys |-> {}, dts |-> Dts, xs |-> {0},
     ys |-> {0}, left |-> {FALSE}, right |-> {FALSE},
     dirs |-> Level, rays |-> {FALSE}, shiftYs |-> {0}, shiftZs |-> {1},
     shifts |-> {FALSE}]

WorldInit ==
    /\ InitCamera
    /\ numBodies = 2
    /\ parentOf = [e \in Entities |-> IF e = 0 THEN NoEntity
                                      ELSE IF e <= 2 THEN e - 1 ELSE 0]
    /\ hasModel = [e \in Entities |-> e \in {1, 2}]
    /\ hasOrbit = [e \in Entities |-> e > 0]
    /\ hasClouds = [e \in Entities |-> FALSE]
    /\ cloudPeriod = [e \in Entities |-> 0]
    /\ texFocus = NoEntity
    /\ texLoadBodies = <<>>
    /\ epochInSeconds = 0
    /\ InitCalendar /\ InitProfiling /\ InitWorld /\ InitFence

WorldNext == WorldFrame(WorldProfile)

WorldSpec == WorldInit /\ [][WorldNext]_vars

\* ------ JumpSpec: focus switches among moving bodies, with the camera shifted
\* or not by the ray test, and frames of any length
JumpProfile ==
    [idleKeys |-> {"TAB"}, keys |-> {}, dts |-> Dts, xs |-> {0},
     ys |-> {0}, left |-> {FALSE}, right |-> {FALSE},
     dirs |-> Level, rays |-> BOOLEAN, shiftYs |-> {0}, shiftZs |-> {1, 2},
     shifts |-> {FALSE}]

JumpNext == WorldFrame(JumpProfile)

JumpSpec == WorldInit /\ [][JumpNext]_vars

\* ------------------------------------------------------------ the fence
\* glFenceSync(GL_SYNC_GPU_COMMANDS_COMPLETE, 0): a new sync object, or 0 when
\* GL fails
glFenceSync == {0, 1}

\* glClientWaitSync(sync, 0, 0), for a sync object that is signalled or not: with
\* a timeout of 0 the call does not block
glClientWaitSync(signalled) ==
    IF signalled THEN {"GL_ALREADY_SIGNALED", "GL_CONDITION_SATISFIED", "GL_WAIT_FAILED"}
    ELSE {"GL_TIMEOUT_EXPIRED", "GL_WAIT_FAILED"}

\* how wait() ends for the value ret of glClientWaitSync
waitOutcome(ret) ==
    IF ret = "GL_ALREADY_SIGNALED" \/ ret = "GL_CONDITION_SATISFIED" THEN "returned"
    ELSE IF ret = "GL_WAIT_FAILED" THEN "thrown"
    ELSE "returned"

\* the sync object of the last lock() is signalled: the commands before it are complete
signalled == completed >= fencePoint

\* Fence::lock
FenceLock ==
    /\ \E handle \in glFenceSync : sync' = handle
    /\ fencePoint' = issued
    /\ UNCHANGED <<issued, completed, waited, gameVars>>

\* Fence::wait
FenceWait ==
    /\ IF sync = 0
       THEN waited' = [outcome |-> "returned", calls |-> 0, ret |-> "NONE",
                       created |-> FALSE, locked |-> fencePoint # NoPoint,
                       complete |-> signalled]
       ELSE \E ret \in glClientWaitSync(signalled) :
               waited' = [outcome |-> waitOutcome(ret), calls |-> 1, ret |-> ret,
                          created |-> TRUE, locked |-> TRUE, complete |-> signalled]
    /\ UNCHANGED <<sync, fencePoint, issued, completed, gameVars>>

\* the CPU thread issues a GPU command
Draw ==
    /\ issued < MaxCommands
    /\ issued' = issued + 1
    /\ UNCHANGED <<sync, fencePoint, completed, waited, gameVars>>

\* the GPU completes its oldest command
GpuComplete ==
    /\ completed < issued
    /\ completed' = completed + 1
    /\ UNCHANGED <<sync, fencePoint, issued, waited, gameVars>>

FenceInit == InitGame /\ numBodies = 1 /\ focusedBodyId = 0

FenceNext ==
    \/ FenceLock
    \/ FenceWait
    \/ Draw
    \/ GpuComplete

FenceSpec == FenceInit /\ [][FenceNext]_vars

\* ======================================================== properties

\* the frame that returned the switch machine to IDLE
ReturnFrame == framePhase = MOVE /\ switchPhase = IDLE

\* what updateMove leaves on the frame that returns to IDLE
Arrived ==
    /\ panPolar = [x |-> 0, y |-> 0]
    /\ viewSpeed = [x |-> 0, y |-> 0, z |-> 0]
    /\ viewPolar.z = Max(4 * Radius(focusedBodyId), MinTargetDist)

\* C1 as stated: once the dt of the frames after the trigger sums to at least
\* two phase durations the machine is IDLE again, and the frame that returns
\* to IDLE leaves pan and speed zero and the camera at max(4 radius, 1000)
\* of the new focused body.
C1_AsStated ==
    /\ (sinceSwitch >= 2 * totalTime => switchPhase = IDLE)
    /\ (ReturnFrame => Arrived)

\* C1 amended: a phase ends on the first frame whose dt carries its timer past
\* the duration and the overshoot is dropped, so the machine is IDLE again once
\* the dt of the frames after the trigger sums to more than two phase durations
\* plus the largest frame dt; the frame that returns to IDLE leaves pan and
\* speed zero and the camera at max(4 radius, 1000) of the new focused body.
C1_SwitchCompletes ==
    /\ (switchPhase # IDLE => sinceSwitch <= 2 * totalTime + MaxDt)
    /\ (ReturnFrame => Arrived)

\* a switch to another body has just returned to IDLE
C1_Witness ==
    /\ ReturnFrame
    /\ focusedBodyId # switchPreviousBodyId
    /\ Arrived

\* C2: the phase changes between consecutive frames are only IDLE->TRACK, on a
\* frame where isPressedOnce(TAB) fired in updateIdle, TRACK->MOVE and
\* MOVE->IDLE, each on a frame where switchTime plus the frame's dt exceeds
\* the duration; no other change and no phase skipped.
C2_PhaseChanges ==
    [][switchPhase' # switchPhase =>
        ( \/ /\ switchPhase = IDLE /\ switchPhase' = TRACK
             /\ framePhase' = IDLE /\ "TAB" \in pressedOnce'
             /\ ~keysHeld["TAB"] /\ keyDown'["TAB"]
          \/ /\ switchPhase = TRACK /\ switchPhase' = MOVE
             /\ switchTime + addedDt' > totalTime
          \/ /\ switchPhase = MOVE /\ switchPhase' = IDLE
             /\ switchTime + addedDt' > totalTime )]_vars

\* every one of the three phase changes has happened: a switch has returned
\* to IDLE through TRACK and MOVE
C2_Witness ==
    /\ framePhase = MOVE /\ switchPhase = IDLE
    /\ addedDt > 0 /\ switchTime = 0

\* C3: with frames of dt > 0 arriving, every state in TRACK or MOVE is followed
\* by a state in IDLE, and no step of TRACK or MOVE puts the focus back on
\* the previous body.
C3_SwitchEnds ==
    /\ (switchPhase \in {TRACK, MOVE}) ~> (switchPhase = IDLE)
    /\ [][(switchPhase # IDLE) =>
            (focusedBodyId' = focusedBodyId /\
             switchPreviousBodyId' = switchPreviousBodyId)]_vars

\* a switch under way, in its MOVE phase, on the way to another body
C3_Witness ==
    /\ switchPhase = MOVE /\ framePhase = MOVE
    /\ switchTime > 0
    /\ focusedBodyId # switchPreviousBodyId

\* C4 as stated: at the end of every frame processed by updateIdle the camera
\* distance viewPolar.z is at least the radius of the currently focused body,
\* also on the frame where Tab changes focusedBodyId.
C4_AsStated ==
    framePhase = IDLE => viewPolar.z >= Radius(focusedBodyId)

\* the body viewPolar is measured from at the end of a frame of updateIdle: the
\* body focused when the frame began
MeasuredBody == IF "TAB" \in pressedOnce THEN switchPreviousBodyId ELSE focusedBodyId

\* C4 amended: at the end of every frame processed by updateIdle viewPolar.z is
\* at least the radius of the body that was focused when the frame began,
\* which is the currently focused body on every frame but the one where Tab
\* changes focusedBodyId.
C4_DistanceAboveRadius ==
    framePhase = IDLE => viewPolar.z >= Radius(MeasuredBody)

\* after a completed switch the camera has been zoomed in down to the surface
\* and is held there against a further zoom in
C4_Witness ==
    /\ framePhase = IDLE /\ switchPhase = IDLE
    /\ focusedBodyId # switchPreviousBodyId
    /\ viewPolar.z = Radius(focusedBodyId)
    /\ "TAB" \notin pressedOnce

\* an elevation within the limit
InRange(y) == -maxVerticalAngle <= y /\ y <= maxVerticalAngle

\* C5 as stated: in every end-of-frame state of all three phases viewPolar.y and
\* viewPolar.y + panPolar.y lie within [-(pi/2 - 0.001), pi/2 - 0.001].
C5_AsStated ==
    InRange(viewPolar.y) /\ InRange(viewPolar.y + panPolar.y)

\* C5 amended: at the end of every frame processed by updateIdle viewPolar.y and
\* viewPolar.y + panPolar.y lie within [-(pi/2 - 0.001), pi/2 - 0.001].
C5_ElevationInRange ==
    framePhase \in {"NONE", IDLE} =>
        (InRange(viewPolar.y) /\ InRange(viewPolar.y + panPolar.y))

\* a frame of updateIdle has ended with the panned elevation on the limit and
\* the pan not zero
C5_Witness ==
    /\ framePhase = IDLE
    /\ panPolar.y # 0
    /\ viewPolar.y + panPolar.y \in {maxVerticalAngle, -maxVerticalAngle}

\* the k-th body after f in the forward order of n bodies
RECURSIVE Forward(_, _, _)
Forward(f, k, n) == IF k = 0 THEN f ELSE chooseNextBody(Forward(f, k - 1, n), TRUE, n)

\* C6: a forward switch sets focusedBodyId to (old + 1) mod n and a backward
\* switch (Shift held) to (old - 1) mod n; focusedBodyId, switchPreviousBodyId
\* and bodyNameId are always indices in [0, n); forward then backward restores
\* the focus, and n forward switches visit every body exactly once.
C6_FocusWraps ==
    /\ [](/\ focusedBodyId \in 0..(numBodies - 1)
          /\ switchPreviousBodyId \in 0..(numBodies - 1)
          /\ bodyNameId \in 0..(numBodies - 1)
          /\ chooseNextBody(chooseNextBody(focusedBodyId, TRUE, numBodies),
                            FALSE, numBodies) = focusedBodyId
          /\ {Forward(focusedBodyId, k, numBodies) : k \in 1..numBodies}
                 = 0..(numBodies - 1)
          /\ Forward(focusedBodyId, numBodies, numBodies) = focusedBodyId)
    /\ [][("TAB" \in pressedOnce') =>
            (/\ switchPreviousBodyId' = focusedBodyId
             /\ focusedBodyId' = (IF shiftDown' THEN (focusedBodyId - 1) % numBodies
                                  ELSE (focusedBodyId + 1) % numBodies))]_vars

\* a forward switch has wrapped from the last body to the first, and a backward
\* switch from the first to the last
C6_Witness ==
    /\ "TAB" \in pressedOnce /\ numBodies = MaxBodies
    /\ \/ ~shiftDown /\ switchPreviousBodyId = numBodies - 1 /\ focusedBodyId = 0
       \/ shiftDown /\ switchPreviousBodyId = 0 /\ focusedBodyId = numBodies - 1

\* pan and speed as updateMove leaves them when its timer ends the switch
Zeroed ==
    /\ switchPhase = MOVE /\ switchPhase' = IDLE
    /\ switchTime + addedDt' > totalTime
    /\ panPolar' = [x |-> 0, y |-> 0]
    /\ viewSpeed' = [x |-> 0, y |-> 0, z |-> 0]

\* C7: while switchPhase is TRACK or MOVE no input (Tab, Shift+Tab, K, L, the
\* mouse, the wheel) changes focusedBodyId, switchPreviousBodyId,
\* switchNewViewPolar, switchPreviousViewDir, panPolar or viewSpeed (pan and
\* speed change only when the timer of MOVE ends the switch, to zero);
\* focusedBodyId changes only on an IDLE frame on which the Tab edge fires,
\* once per switch.
C7_SwitchIgnoresInput ==
    /\ [][(switchPhase # IDLE) =>
            (/\ focusedBodyId' = focusedBodyId
             /\ switchPreviousBodyId' = switchPreviousBodyId
             /\ switchNewViewPolar' = switchNewViewPolar
             /\ switchPreviousViewDir' = switchPreviousViewDir
             /\ timeWarpIndex' = timeWarpIndex
             /\ (panPolar' = panPolar /\ viewSpeed' = viewSpeed) \/ Zeroed)]_vars
    /\ [][(focusedBodyId' # focusedBodyId) =>
            (switchPhase = IDLE /\ framePhase' = IDLE /\ "TAB" \in pressedOnce')]_vars
    /\ [][("TAB" \in pressedOnce') =>
            (/\ switchPhase = IDLE /\ switchPhase' = TRACK
             /\ numBodies > 1 => focusedBodyId' # focusedBodyId)]_vars

\* a switch under way with the camera panned, at the end of a frame in which
\* Tab and K were down and the mouse had moved
C7_Witness ==
    /\ switchPhase = MOVE /\ framePhase = MOVE
    /\ keyDown["TAB"] /\ keyDown["K"] /\ ~keysHeld["K"]
    /\ preMousePosY # 0
    /\ panPolar.y # 0
    /\ focusedBodyId # switchPreviousBodyId

\* the key k went down in the last frame: down in it and up in the frame before
PressedIn(k) == keyDown'[k] /\ ~keyDown[k]

\* C8 as stated: for each key of Tab, K, L, W, B and F12, sampled once per frame,
\* the action fires exactly on the first frame of each run of frames in which
\* the key is down, in whatever phase the press begins, and never on a frame
\* where the key was also down on the previous frame.
C8_AsStated ==
    [][\A k \in Keys : (k \in pressedOnce') <=> PressedIn(k)]_vars

\* the name shown and its opacity are those of a frame of the phase `phase`
LabelOf(phase) ==
    /\ phase = IDLE => (bodyNameId = focusedBodyId /\ bodyNameFade = totalTime)
    /\ phase = TRACK => bodyNameId = switchPreviousBodyId
    /\ phase = MOVE => bodyNameId = focusedBodyId
    /\ bodyNameFade \in 0..totalTime

\* C9 as stated: when render is called, IDLE shows focusedBodyId at opacity 1,
\* TRACK shows switchPreviousBodyId, MOVE shows focusedBodyId; the opacity is in
\* [0,1], non-increasing across the frames of TRACK and non-decreasing across
\* the frames of MOVE, the phase being switchPhase at the call of render.
C9_AsStated ==
    /\ [][LabelOf(switchPhase)']_vars
    /\ [][(switchPhase = TRACK /\ switchPhase' = TRACK) =>
            bodyNameFade' <= bodyNameFade]_vars
    /\ [][(switchPhase = MOVE /\ switchPhase' = MOVE) =>
            bodyNameFade' >= bodyNameFade]_vars

\* C9 amended: the same of the phase the frame was processed in (updateIdle,
\* updateTrack or updateMove), which differs from switchPhase at the call of
\* render on the frames that change phase; a frame of updateIdle shows the body
\* focused when the frame began.
C9_NameLabel ==
    /\ [](/\ framePhase = IDLE =>
                (bodyNameId = MeasuredBody /\ bodyNameFade = totalTime)
          /\ framePhase = TRACK => bodyNameId = switchPreviousBodyId
          /\ framePhase = MOVE => bodyNameId = focusedBodyId
          /\ bodyNameFade \in 0..totalTime)
    /\ [][(framePhase = TRACK /\ framePhase' = TRACK) =>
            bodyNameFade' <= bodyNameFade]_vars
    /\ [][(framePhase = MOVE /\ framePhase' = MOVE) =>
            bodyNameFade' >= bodyNameFade]_vars

\* a frame of updateMove has shown the name of the new body half faded in
C9_Witness ==
    /\ framePhase = MOVE /\ switchPhase = MOVE
    /\ bodyNameFade > 0 /\ bodyNameFade < totalTime
    /\ bodyNameId = focusedBodyId /\ focusedBodyId # switchPreviousBodyId

\* the elements of a list
Range(v) == {v[i] : i \in 1..Len(v)}

\* no element of the list v appears in it twice
NoDuplicates(v) == \A i, j \in 1..Len(v) : v[i] = v[j] => i = j

\* the ancestors and the siblings of the entity h
Ancestors(h) == Range(getAllParents(h))
Siblings(h) == {e \in Entities \ {h} : parentOf[e] = parentOf[h]}

\* C10 as stated: for a focused body that has a parent, the elements of the list
\* getTexLoadBodies returns are exactly the focused body, its ancestors and its
\* siblings, restricted to the entities with a Model, and no handle appears in
\* the list twice.
C10_AsStated ==
    texFocus # NoEntity =>
        /\ Range(texLoadBodies) =
              {e \in {texFocus} \cup Ancestors(texFocus) \cup Siblings(texFocus) :
                  hasModel[e]}
        /\ NoDuplicates(texLoadBodies)

\* C13: at the end of every frame switchPhase = IDLE implies switchTime = 0, and
\* every frame that changes the phase leaves switchTime = 0, so the first frame
\* of TRACK and the first frame of MOVE start from a timer of 0: no elapsed
\* time is carried from one phase or one switch into the next.
C13_TimerReset ==
    /\ [](switchPhase = IDLE => switchTime = 0)
    /\ [][(switchPhase' # switchPhase) => switchTime' = 0]_vars
    /\ [][(framePhase' # framePhase /\ framePhase' # IDLE) => switchTime = 0]_vars

\* a frame of updateTrack has ended the phase with the largest dt, which
\* carried the timer well past the duration, and MOVE starts from 0
C13_Witness ==
    /\ framePhase = TRACK /\ switchPhase = MOVE
    /\ addedDt = MaxDt /\ MaxDt > totalTime
    /\ switchTime = 0

\* the closest point of the ray of the last frame was in front of the camera
\* and nearer than 1.1 radius of the body `id`
Obstructed(id) == rayIn.bNeg /\ rayIn.closestDist * 10 < 11 * Radius(id)

\* C14 as stated: at the end of the frame that triggers a switch,
\* switchNewViewPolar differs from viewPolar only if the closest point of the
\* ray lies in front of the camera at less than 1.1 x the radius of the NEW
\* focused body; in every other case switchNewViewPolar = viewPolar.
C14_AsStated ==
    "TAB" \in pressedOnce =>
        (switchNewViewPolar # viewPolar => Obstructed(focusedBodyId))

\* C14 amended: the same with 1.1 x the radius of the PREVIOUS focused body,
\* the one the camera orbits (radius is read before the focus changes); and
\* while TRACK runs toward a target equal to viewPolar, viewPolar keeps its
\* value, also on the frame that commits interpPolar.
C14_ObstructionCorrection ==
    /\ [](("TAB" \in pressedOnce) =>
            (switchNewViewPolar # viewPolar => Obstructed(switchPreviousBodyId)))
    /\ [][(switchPhase = TRACK /\ switchNewViewPolar = viewPolar) =>
            viewPolar' = viewPolar]_vars

\* a switch from a large body to a small one has been triggered with the
\* closest point in front, inside 1.1 radius of the large body and outside
\* 1.1 radius of the small one, and the target has been shifted
C14_Witness ==
    /\ "TAB" \in pressedOnce /\ switchPhase = TRACK
    /\ rayIn.bNeg
    /\ Obstructed(switchPreviousBodyId) /\ ~Obstructed(focusedBodyId)
    /\ switchNewViewPolar # viewPolar

\* a step of the scroll callback: the wheel changes viewSpeed.z by ScrollGain
ScrollLike ==
    /\ viewSpeed'.x = viewSpeed.x /\ viewSpeed'.y = viewSpeed.y
    /\ Abs(viewSpeed'.z - viewSpeed.z) = ScrollGain
    /\ viewPolar' = viewPolar

\* |viewSpeed.x| and |viewSpeed.y| are at most maxViewSpeed
SpeedBounded == Abs(viewSpeed.x) <= maxViewSpeed /\ Abs(viewSpeed.y) <= maxViewSpeed

\* C16 as stated: in every reachable state |viewSpeed.x| and |viewSpeed.y| are at
\* most maxViewSpeed; and a frame of IDLE with no button held takes every
\* component of viewSpeed to viewSmoothness x its value before: a decay,
\* never an instant stop.
C16_AsStated ==
    /\ []SpeedBounded
    /\ [][(switchPhase = IDLE /\ ~dragging') =>
            \/ ScrollLike
            \/ viewSpeed' = [x |-> smooth(viewSpeed.x), y |-> smooth(viewSpeed.y),
                             z |-> smooth(viewSpeed.z)]]_vars

\* C16 amended: the same, except that viewSpeed.y is set to 0 by a frame in
\* which the elevation is clamped to +-maxVerticalAngle.
C16_SpeedBound ==
    /\ []SpeedBounded
    /\ [][(switchPhase = IDLE /\ ~dragging') =>
            \/ ScrollLike
            \/ /\ viewSpeed'.x = smooth(viewSpeed.x)
               /\ viewSpeed'.z = smooth(viewSpeed.z)
               /\ \/ viewSpeed'.y = smooth(viewSpeed.y)
                  \/ /\ viewSpeed'.y = 0
                     /\ Abs(viewPolar'.y) = maxVerticalAngle
                     /\ Abs(viewPolar.y + viewSpeed.y) > maxVerticalAngle]_vars

\* a drag has been clamped to maxViewSpeed in x and released; in the frame
\* after the release the azimuth speed has decayed once more while the
\* elevation reached the limit and lost its speed
C16_Witness ==
    /\ framePhase = IDLE /\ ~dragging
    /\ viewSpeed.x = smooth(smooth(maxViewSpeed))
    /\ viewSpeed.x # 0
    /\ viewSpeed.y = 0 /\ viewPolar.y = maxVerticalAngle

\* the proleptic Gregorian date of the n-th day after Jan 1 2017 (n >= 0), by
\* the era / day-of-era computation on days counted from Mar 1 of year 0
\* (Jan 1 2017 is day 17167 after Jan 1 1970, which is day 719468)
CivilFromDays(n) ==
    LET z == n + 17167 + 719468
        era == z \div 146097
        doe == z - era * 146097
        yoe == (doe - doe \div 1460 + doe \div 36524 - doe \div 146096) \div 365
        doy == doe - (365 * yoe + yoe \div 4 - yoe \div 100)
        mp == (5 * doy + 2) \div 153
        m == IF mp < 10 THEN mp + 3 ELSE mp - 9
    IN  [year |-> yoe + era * 400 + (IF m <= 2 THEN 1 ELSE 0),
         month |-> m - 1,
         day |-> doy - (153 * mp + 2) \div 5 + 1]

\* the Gregorian rule and the lengths of the months
GregorianLeap(y) == (y % 4 = 0 /\ y % 100 # 0) \/ y % 400 = 0
GregorianLength(y, m) ==
    IF m = 1 THEN (IF GregorianLeap(y) THEN 29 ELSE 28)
    ELSE IF m \in {3, 5, 8, 10} THEN 30 ELSE 31

\* the two decimal digits of v in 0..99
Digits == <<"0", "1", "2", "3", "4", "5", "6", "7", "8", "9">>
TwoDigits(v) == Digits[(v \div 10) + 1] \o Digits[(v % 10) + 1]

\* the date of a is not after the date of b
DateLE(a, b) ==
    \/ a.year < b.year
    \/ a.year = b.year /\ a.month < b.month
    \/ a.year = b.year /\ a.month = b.month /\ a.day <= b.day

\* the formatted time is the date `mon`. `d` `y`
IsDate(t, mon, d, y) == t.monthName = mon /\ t.day = d /\ t.year = y

\* C12: for an epoch e >= 0, getFormattedTime(e) is the proleptic Gregorian
\* date of day floor(e/86400) counted from Jan 1 2017 with the time of day of
\* e: epoch 0 gives Jan. 1 2017 00:00:00, epoch 365*86400 gives Jan. 1 2018,
\* the day of the month is in 1..length of the month, February has a 29th
\* exactly in leap years (Feb. 29 2020 is followed by Mar. 1 2020), and the
\* date does not decrease when e grows.
C12_CalendarDate ==
    /\ []((formattedTime # NoTime /\ epochInSeconds >= 0) =>
            LET t == formattedTime
                ref == CivilFromDays(epochInSeconds \div 86400)
                ofDay == epochInSeconds % 86400
            IN  /\ t.year = ref.year /\ t.month = ref.month /\ t.day = ref.day
                /\ t.monthName = monthNames[ref.month + 1]
                /\ t.day \in 1..GregorianLength(t.year, t.month)
                /\ t.hours = TwoDigits(ofDay \div 3600)
                /\ t.minutes = TwoDigits((ofDay \div 60) % 60)
                /\ t.seconds = TwoDigits(ofDay % 60)
                /\ epochInSeconds = 0 =>
                      (IsDate(t, "Jan", 1, 2017) /\ t.hours = "00"
                       /\ t.minutes = "00" /\ t.seconds = "00")
                /\ epochInSeconds = 365 * 86400 => IsDate(t, "Jan", 1, 2018)
                /\ epochInSeconds \div 86400 = 3 * 365 + 31 + 28
                      => IsDate(t, "Feb", 29, 2020))
    /\ [][(formattedTime # NoTime /\ epochInSeconds >= 0
              /\ epochInSeconds' >= epochInSeconds) =>
            /\ DateLE(formattedTime, formattedTime')
            /\ (IsDate(formattedTime, "Feb", 29, 2020)
                  /\ epochInSeconds' = epochInSeconds + 86400)
                   => IsDate(formattedTime', "Mar", 1, 2020)]_vars

\* the last second of Feb. 29 2020 has been formatted
C12_Witness ==
    /\ IsDate(formattedTime, "Feb", 29, 2020)
    /\ formattedTime.hours = "23" /\ formattedTime.minutes = "59"
    /\ formattedTime.seconds = "59"
    /\ epochInSeconds = (3 * 365 + 31 + 28) * 86400 + 86399

\* C20 as stated: for every epoch the frame loop can produce, negative ones
\* included, getFormattedTime returns hour, minute and second each as exactly
\* two decimal digits with values in 00-23, 00-59 and 00-59, a month index in
\* 0..11 and a day of the month >= 1.
C20_AsStated ==
    formattedTime # NoTime =>
        /\ formattedTime.hours \in {TwoDigits(v) : v \in 0..23}
        /\ formattedTime.minutes \in {TwoDigits(v) : v \in 0..59}
        /\ formattedTime.seconds \in {TwoDigits(v) : v \in 0..59}
        /\ formattedTime.month \in 0..11
        /\ formattedTime.day >= 1

\* the pairs of all the lists given to updateProfiling, in order
RECURSIVE AllPairs(_, _)
AllPairs(fs, i) == IF i > Len(fs) THEN <<>> ELSE fs[i] \o AllPairs(fs, i + 1)

\* the durations of the label among the pairs ps, from the i-th on: their sum
\* and their maximum
RECURSIVE SumOf(_, _, _)
SumOf(ps, label, i) ==
    IF i > Len(ps) THEN 0
    ELSE (IF ps[i][1] = label THEN ps[i][2] ELSE 0) + SumOf(ps, label, i + 1)
RECURSIVE MaxOf(_, _, _)
MaxOf(ps, label, i) ==
    IF i > Len(ps) THEN 0
    ELSE Max(IF ps[i][1] = label THEN ps[i][2] ELSE 0, MaxOf(ps, label, i + 1))

\* the labels of a list of pairs
LabelsOf(times) == {times[i][1] : i \in 1..Len(times)}

\* C19: numFrames is the number of calls of updateProfiling; every label that
\* has appeared occurs exactly once in fullTimes and once in maxTimes, with
\* the sum and the maximum of its durations over all the lists; and
\* maxTimes[label] <= fullTimes[label].
C19_ProfilingTotals ==
    LET ps == AllPairs(feeds, 1)
    IN  /\ numFrames = Len(feeds)
        /\ LabelsOf(fullTimes) = LabelsOf(ps) /\ LabelsOf(maxTimes) = LabelsOf(ps)
        /\ \A i, j \in 1..Len(fullTimes) : fullTimes[i][1] = fullTimes[j][1] => i = j
        /\ \A i, j \in 1..Len(maxTimes) : maxTimes[i][1] = maxTimes[j][1] => i = j
        /\ \A i \in 1..Len(fullTimes) :
               fullTimes[i][2] = SumOf(ps, fullTimes[i][1], 1)
        /\ \A i \in 1..Len(maxTimes) :
               /\ maxTimes[i][2] = MaxOf(ps, maxTimes[i][1], 1)
               /\ \E j \in 1..Len(fullTimes) :
                     /\ fullTimes[j][1] = maxTimes[i][1]
                     /\ maxTimes[i][2] <= fullTimes[j][2]

\* two frames have been fed: a label came in both, the longer duration first,
\* and another label only in the second
C19_Witness ==
    /\ numFrames = 2 /\ Len(fullTimes) = 2
    /\ feeds[1] = <<<<"frame", 3>>>>
    /\ feeds[2] = <<<<"frame", 1>>, <<"scene", 1>>>>
    /\ fullTimes = <<<<"frame", 4>>, <<"scene", 1>>>>
    /\ maxTimes = <<<<"frame", 3>>, <<"scene", 1>>>>

\* the position of the entity h relative to its parent at the epoch e
RelativeOf(h, e) == IF hasOrbit[h] THEN computePosition(h, e) ELSE Origin

\* C11: after the entity state pass of a frame the absolute position of an
\* entity with a parent is the absolute position of its parent plus its own
\* relative position (its orbit position at the epoch of the frame, zero without
\* orbit), the absolute position of a root entity is zero, and whatever the
\* order in which the entities are gone through and whatever the states of the
\* frame before, the states are those of the epoch of the frame
C11_AncestorChain ==
    /\ [](framePhase # "NONE" =>
            \A h \in Entities :
               entityState[h].position =
                  IF parentOf[h] = NoEntity THEN Origin
                  ELSE VecAdd(entityState[parentOf[h]].position, RelativeOf(h, epoch)))
    /\ [][\A order \in Orders : entityState' = entityStates(epoch', order)]_vars

\* a body in orbit around a body in orbit around a root, three ticks after the
\* start: the inner body a quarter before its start, the outer one a quarter after
C11_Witness ==
    /\ framePhase # "NONE"
    /\ epoch = 3
    /\ parentOf[1] = 0 /\ parentOf[2] = 1
    /\ hasOrbit[1] /\ hasOrbit[2]
    /\ entityState[1].position = <<0, -500000>>
    /\ entityState[2].position = <<0, 500000>>

\* C17: the cloud displacement of an entity without cloud layer or with a
\* cloud period of zero is 0, and that of an entity with a cloud layer and a
\* period other than zero is the fractional part of -epoch/period, other than
\* zero whenever the epoch is not a multiple of the period
C17_AsStated ==
    framePhase # "NONE" =>
       \A h \in Entities :
          IF ~hasClouds[h] \/ cloudPeriod[h] = 0
          THEN entityState[h].cloudDisp = 0
          ELSE /\ entityState[h].cloudDisp = TruncRem(-epoch, cloudPeriod[h])
               /\ (epoch % cloudPeriod[h] # 0 => entityState[h].cloudDisp # 0)

\* C15 as stated: in two frames of one MOVE phase sourcePos and direction
\* (hence viewDir) are the same
C15_AsStated ==
    [][(framePhase = MOVE /\ framePhase' = MOVE) =>
          (sourcePos' = sourcePos /\ viewDir' = viewDir)]_vars

\* C15: in every frame of MOVE sourcePos is the position of the previous body
\* in the entity states of that frame plus the camera offset viewPolar, and
\* viewDir is the direction from it to the position of the focused body in
\* the same states; from one frame of a MOVE phase to the next it is the offset
\* of sourcePos from the previous body that stays the same
C15_SourceFollows ==
    [][(framePhase' = MOVE) =>
          /\ sourcePos' = VecAdd(bodyPosition(entityState', switchPreviousBodyId),
                                 polarXY(viewPolar))
          /\ viewDir' = dirTo(VecSub(bodyPosition(entityState', focusedBodyId), sourcePos'))
          /\ (framePhase = MOVE =>
                VecSub(sourcePos', bodyPosition(entityState', switchPreviousBodyId))
                  = VecSub(sourcePos, bodyPosition(entityState, switchPreviousBodyId)))]_vars

\* the second frame or a later one of a MOVE phase, the previous body away
\* from the origin
C15_Witness ==
    /\ framePhase = MOVE /\ switchPhase = MOVE
    /\ switchTime > addedDt
    /\ bodyPosition(entityState, switchPreviousBodyId) # Origin
    /\ sourcePos # polarXY(viewPolar)

\* C18: in every frame the epoch is advanced by timeWarpValues[timeWarpIndex] x dt
\* with the warp index of the start of the frame, the entity states are those
\* of the advanced epoch, the camera position is computed from these states, and
\* the time given to the renderer is the formatted time of the same epoch; a
\* change of the warp index made by the frame (K, L, the reset on Tab) leaves
\* the epoch of that frame alone
C18_FrameOrder ==
    [][/\ epoch' = epoch + timeWarpValues[timeWarpIndex + 1] * frameDt'
       /\ entityState' = entityStates(epoch', LoadOrder)
       /\ epochInSeconds' = floorSeconds(epoch')
       /\ formattedTime' = getFormattedTime(floorSeconds(epoch'))
       /\ (framePhase' = IDLE =>
             viewPos' = VecAdd(polarXY(viewPolar'),
                               bodyPosition(entityState', focusedBodyId)))
       /\ (framePhase' = TRACK =>
             viewPos' = VecAdd(bodyPosition(entityState', switchPreviousBodyId),
                               polarXY(interpPolar(viewPolar, switchNewViewPolar,
                                                   ease(phaseT(switchTime))))))
       /\ (framePhase' = MOVE =>
             viewPos' = mix(sourcePos',
                            VecSub(bodyPosition(entityState', focusedBodyId),
                                   along(viewDir', targetDist(focusedBodyId))),
                            ease2Num(phaseT(switchTime)), ease2Den(phaseT(switchTime))))]_vars

\* the first frame, two ticks long, with L pressed: the epoch is advanced at
\* the first rate, and the warp index is 1 for the frame to come
C18_Witness ==
    /\ framePhase = IDLE
    /\ "L" \in pressedOnce
    /\ timeWarpIndex = 1
    /\ frameDt = 2
    /\ epoch = 2
    /\ entityState[1].position = <<-500000, 0>>
    /\ viewPos = VecAdd(polarXY(viewPolar), bodyPosition(entityState, focusedBodyId))

\* C22: in every reachable state 0 <= timeWarpIndex <= size(timeWarpValues) - 1,
\* K alone at index 0 and L alone at the last index leave the index as it is, a
\* frame that triggers the focus switch leaves the index at 0, and the index is 0
\* after every frame of TRACK and MOVE, whatever keys are down
C22_WarpIndex ==
    /\ [](timeWarpIndex \in 0..(Len(timeWarpValues) - 1))
    /\ [](switchPhase # IDLE => timeWarpIndex = 0)
    /\ [][/\ (framePhase' = IDLE /\ "TAB" \in pressedOnce') => timeWarpIndex' = 0
          /\ (framePhase' \in {TRACK, MOVE}) => timeWarpIndex' = 0
          /\ (framePhase' = IDLE /\ pressedOnce' \cap {"TAB", "K", "L"} = {"K"}
                /\ timeWarpIndex = 0) => timeWarpIndex' = 0
          /\ (framePhase' = IDLE /\ pressedOnce' \cap {"TAB", "K", "L"} = {"L"}
                /\ timeWarpIndex = Len(timeWarpValues) - 1)
                => timeWarpIndex' = timeWarpIndex]_vars

\* the frame that triggers the switch, with L pressed in the same frame
C22_Witness ==
    /\ framePhase = IDLE /\ switchPhase = TRACK
    /\ {"TAB", "L"} \subseteq pressedOnce
    /\ timeWarpIndex = 0

\* C23 as stated: a call of scrollFun in TRACK or MOVE leaves viewFovy, exposure
\* and viewSpeed unchanged, and in IDLE exactly one of them changes: viewFovy
\* with Alt, exposure with Ctrl, viewSpeed.z with neither, within their limits
C23_AsStated ==
    [][(scrolled'.called) =>
          IF switchPhase # IDLE
          THEN UNCHANGED <<viewFovy, exposure, viewSpeed>>
          ELSE IF scrolled'.alt
          THEN /\ viewFovy' # viewFovy /\ viewFovy' \in FovyMin..FovyMax
               /\ UNCHANGED <<exposure, viewSpeed>>
          ELSE IF scrolled'.ctrl
          THEN /\ exposure' # exposure /\ exposure' \in (-ExposureMax)..ExposureMax
               /\ UNCHANGED <<viewFovy, viewSpeed>>
          ELSE /\ viewSpeed'.z # viewSpeed.z
               /\ viewSpeed'.x = viewSpeed.x /\ viewSpeed'.y = viewSpeed.y
               /\ UNCHANGED <<viewFovy, exposure>>]_vars

\* C23: a call of scrollFun in TRACK or MOVE leaves viewFovy, exposure and
\* viewSpeed unchanged; in IDLE it writes one of them and leaves the other two
\* unchanged: with Alt viewFovy, halved or doubled per notch and clamped to its
\* limits, else with Ctrl exposure, moved by a tenth per notch and clamped to its
\* limits, else viewSpeed.z, lowered by the notches; the value written is the
\* value there was when the offset is 0 or the clamp holds it
C23_ScrollEffect ==
    /\ [](viewFovy \in FovyMin..FovyMax /\ exposure \in (-ExposureMax)..ExposureMax)
    /\ [][(scrolled'.called) =>
             IF switchPhase # IDLE
             THEN UNCHANGED <<viewFovy, exposure, viewSpeed>>
             ELSE IF scrolled'.alt
             THEN /\ viewFovy' = clamp(fovyZoom(viewFovy, scrolled'.offset), FovyMin, FovyMax)
                  /\ UNCHANGED <<exposure, viewSpeed>>
             ELSE IF scrolled'.ctrl
             THEN /\ exposure' = clamp(exposure + scrolled'.offset, -ExposureMax, ExposureMax)
                  /\ UNCHANGED <<viewFovy, viewSpeed>>
             ELSE /\ viewSpeed' = [viewSpeed EXCEPT !.z = @ - ScrollGain * scrolled'.offset]
                  /\ UNCHANGED <<viewFovy, exposure>>]_vars

\* the wheel turned with Alt and Ctrl down during TRACK, after it narrowed the
\* field of view and moved the exposure to its limit and back in IDLE
C23_Witness ==
    /\ scrolled.called /\ scrolled.alt /\ scrolled.ctrl /\ scrolled.offset = 3
    /\ switchPhase = TRACK
    /\ viewFovy = FovyMax \div 8
    /\ exposure = -10

\* the end point of the interpolation of updateTrack
trackTarget ==
    [x |-> viewPolar.x + wrapDelta(switchNewViewPolar.x - viewPolar.x),
     y |-> switchNewViewPolar.y,
     z |-> switchNewViewPolar.z]

\* C21 as stated: in the frame in which TRACK hands over to MOVE the parameter t
\* is 1 and the viewPolar committed is the target; in the frame in which MOVE
\* hands over to IDLE t is 1 and viewPos is targetPos; and the camera of the
\* first frame of IDLE after it is where the last frame of MOVE left it with
\* respect to the focused body
C21_AsStated ==
    [][/\ (framePhase' = TRACK /\ switchPhase' = MOVE) =>
             (phaseT(switchTime) = totalTime /\ viewPolar' = trackTarget)
       /\ (framePhase' = MOVE /\ switchPhase' = IDLE) =>
             /\ phaseT(switchTime) = totalTime
             /\ viewPos' = VecSub(bodyPosition(entityState', focusedBodyId),
                                  along(viewDir', targetDist(focusedBodyId)))
       /\ (framePhase = MOVE /\ framePhase' = IDLE) =>
             VecSub(viewPos', bodyPosition(entityState', focusedBodyId))
               = VecSub(viewPos, bodyPosition(entityState, focusedBodyId))]_vars

\* C24 as stated: when wait() returns normally after a lock() that created a
\* sync object, the GPU commands issued before that lock() have completed; when
\* no fence has been created wait() returns without any GL call; and wait()
\* throws when the result of the wait is GL_WAIT_FAILED
C24_AsStated ==
    /\ (waited.outcome = "returned" /\ waited.locked /\ waited.created) => waited.complete
    /\ (waited.outcome # "none" /\ ~waited.created) =>
          (waited.outcome = "returned" /\ waited.calls = 0)
    /\ (waited.ret = "GL_WAIT_FAILED") => waited.outcome = "thrown"

====
